---- MODULE Spec2Model ----
(***************************************************************************)
(* CoaiapyLangfuseCallbackHandler (langchain_core/callbacks/               *)
(* langfuse_handler.py): the run-id -> trace-id / observation-id tables    *)
(* and the calls the handler forwards to the Langfuse client.              *)
(*                                                                         *)
(* Abstractions: run ids are the UUIDs 1..NumRuns and str(run_id) is       *)
(* RunStr; uuid.uuid4() draws the next unused element of UuidPool (uuid4   *)
(* values are taken to be unique); on_run_start only writes               *)
(* run_start_times, which no method reads, and is left out; inputs, tags   *)
(* and metadata of an observation are not kept beyond the display name     *)
(* computed from them; a glyph is written as its name between angle        *)
(* brackets.  The Langfuse client is                                       *)
(* recorded as the list of calls it received: remote_traces (one entry     *)
(* per langfuse.trace call) and remote_spans (one entry per trace.span /   *)
(* trace.generation call, with the end() calls made on that handle).       *)
(***************************************************************************)
EXTENDS Integers, Sequences, FiniteSets, TLC

\* ---------------------------------------------------------------- bounds
NumRuns == 2
MaxCalls == 4
\* the cap of the specification of the first calls
MaxShortCalls == 3
MaxLifecycleCalls == 3
MaxOrchestratorCalls == 3
MaxDeepCalls == 4
MaxNarrativeCalls == 3
MaxNamedCalls == 2
\* beats_generated and enrichments_applied handed to the formatter range over
\* 0..MaxBeats
MaxBeats == 2

\* ---------------------------------------------------------------- values
None == "None"
NoRun == 0
Runs == 1..NumRuns
OptRuns == Runs \cup {NoRun}

RunStrTable == <<"r1", "r2", "r3", "r4", "r5", "r6">>
UuidPool ==
    <<"u1", "u2", "u3", "u4", "u5", "u6", "u7", "u8", "u9", "u10", "u11",
      "u12", "u13", "u14", "u15", "u16">>

\* str(run_id)
RunStr(run) == RunStrTable[run]

\* Python's `a or b` on Optional[str]
PyOr(a, b) == IF a \notin {None, ""} THEN a ELSE b

\* trace_id constructor argument and COAIAPY_TRACE_ID environment values
TraceIdArgs == {None, "", "D"}
TraceIdEnvs == {None, "D"}

\* the exceptions handed to the error callbacks
Errors ==
    { [type |-> "ValueError", args |-> <<"boom">>],
      [type |-> "KeyError", args |-> <<"boom">>] }
NoError == [type |-> None, args |-> <<>>]

\* str(error): BaseException.__str__ gives "" without arguments and
\* str(arg) with one; KeyError.__str__ gives repr(arg) with one
PyStr(error) ==
    IF error.args = <<>> THEN ""
    ELSE IF error.type = "KeyError" THEN "'" \o error.args[1] \o "'"
    ELSE error.args[1]

\* type(error).__name__
TypeName(error) == error.type

\* dict helpers
Get(d, k) == IF k \in DOMAIN d THEN d[k] ELSE None
Put(d, k, v) == [x \in DOMAIN d \cup {k} |-> IF x = k THEN v ELSE d[x]]
EmptyDict == [x \in {} |-> None]
Range(d) == {d[k] : k \in DOMAIN d}

\* dict.get(key, default)
GetDefault(d, k, default) == IF k \in DOMAIN d THEN d[k] ELSE default

\* glyph_map.get(run_type, gear) of _add_glyph: U+1F916, U+1F4AC, U+1F517,
\* U+1F527, U+1F4DA, U+1F9ED, and U+2699 U+FE0F for any other type
Glyph(run_type) ==
    CASE run_type = "llm" -> "<robot>"
      [] run_type = "chat" -> "<speech>"
      [] run_type = "chain" -> "<link>"
      [] run_type = "tool" -> "<wrench>"
      [] run_type = "retriever" -> "<books>"
      [] run_type = "agent" -> "<compass>"
      [] OTHER -> "<gear>"

\* what follows a glyph in the names handed to the callbacks
NameTails == {"", " search"}

\* name.startswith(prefix), for the names handed to the callbacks
StartsWith(name, prefix) == \E rest \in NameTails : name = prefix \o rest

\* _add_glyph
AddGlyph(name, run_type) ==
    IF name \notin {None, ""} /\ ~StartsWith(name, Glyph(run_type))
    THEN Glyph(run_type) \o " " \o name
    ELSE PyOr(name, "Unnamed")

\* metadata is <<>> for Python's None and <<dict>> for a dict;
\* metadata.get("ls_model_name") if metadata else None or fallback
\* (the conditional expression binds weaker than `or`)
ModelName(metadata, fallback) ==
    IF metadata # <<>> /\ DOMAIN metadata[1] # {}
    THEN Get(metadata[1], "ls_model_name")
    ELSE PyOr(None, fallback)

\* serialized.get("name") or serialized.get("id", ["", "Chain"])[-1]
ChainName(serialized) ==
    LET id == GetDefault(serialized, "id", <<"", "Chain">>)
    IN  PyOr(Get(serialized, "name"), id[Len(id)])

\* the serialized dicts and the metadata handed to the callbacks where the
\* display names play no part: every kind's span is named "Unnamed"
PlainSerialized == {[name |-> "", id |-> <<"">>]}
PlainMetadata == {<<[tags |-> "t"]>>}

\* the serialized dicts (the id list of LangChain is never empty) and the
\* metadata handed to the callbacks where the names matter
NamedSerialized ==
    {[name |-> ""], [name |-> "search"], [name |-> "<wrench> search"],
     [id |-> <<"langchain", "MyChain">>], [kwargs |-> "k"]}
NamedMetadata ==
    {<<>>, <<[tags |-> "t"]>>, <<[ls_model_name |-> "gpt-4"]>>}

Outputs == {<<"out">>}
Texts == {"out"}
Documents == {<<"doc">>}
Faults == {"none", "trace", "observation", "end"}

\* the Langfuse client's flush() returning or raising
FlushFaults == {"none", "flush"}

\* what a failing Langfuse client raises
RemoteError == [type |-> "ConnectionError", args |-> <<"down">>]

\* raised by the constructors when LANGFUSE_AVAILABLE is False
ImportError == [type |-> "ImportError", args |-> <<"Langfuse is not installed">>]

\* the attributes __init__ sets on a CoaiapyLangfuseCallbackHandler
HandlerAttrs ==
    {"session_id", "default_trace_id", "trace_name", "flush_on_exit",
     "langfuse", "run_to_trace_id", "run_to_observation_id", "trace_objects",
     "observation_objects", "run_start_times"}

\* raised by reading an attribute that __init__ never set
AttributeError == [type |-> "AttributeError", args |-> <<"no attribute">>]

\* the classes `except Exception` catches
ExceptionTypes ==
    {"ValueError", "KeyError", "ConnectionError", "ImportError",
     "AttributeError"}

\* try: ... except Exception: raise -- the error re-raised, not discarded
ExceptException_Reraise(error) == error

\* try: ... except Exception: pass -- the error that leaves the statement
ExceptException(error) ==
    IF error.type \in ExceptionTypes THEN NoError ELSE error

\* an object of a class the program does not instantiate
Absent == [phase |-> "absent"]
\* no callback running on a thread of its own
NoThreads == <<>>

\* ---------------------------------------------------------------- state
VARIABLES
    default_trace_id,
    run_to_trace_id,
    run_to_observation_id,
    trace_objects,
    observation_objects,
    uuid_count,
    remote_traces,
    remote_spans,
    last,
    scenario,
    LANGFUSE_AVAILABLE,
    formatter,
    threads,
    langfuse_clients,
    handler,
    remote_flushes,
    narrative,
    orchestrator

tables == <<run_to_trace_id, run_to_observation_id, trace_objects,
            observation_objects>>
remote == <<remote_traces, remote_spans>>
\* the module flag, the Langfuse clients constructed, the handler object
\* (its phase from construction to teardown, the attributes set on it and
\* flush_on_exit), the flush() calls its client received, and the objects
\* of the narrative-tracing classes (formatter: a NarrativeTraceFormatter
\* with the metrics handed to it and the suggestions it returned);
\* threads: for each thread running a start callback, the statement it is
\* at and its local variables
lifecycle == <<LANGFUSE_AVAILABLE,
formatter, threads, langfuse_clients, handler,
               remote_flushes, narrative, orchestrator>>
vars == <<default_trace_id, run_to_trace_id, run_to_observation_id,
          trace_objects, observation_objects, uuid_count,
          remote_traces, remote_spans, last, scenario,
          LANGFUSE_AVAILABLE, formatter, threads, langfuse_clients, handler,
          remote_flushes, narrative, orchestrator>>

Event(op, run, parent, error, raised) ==
    [op |-> op, run |-> run, parent |-> parent, error |-> error,
     raised |-> raised]

\* the call made last on an object, what it returned and the error that
\* reached its caller
Call(op, args, returned, error) ==
    [op |-> op, args |-> args, returned |-> returned, error |-> error,
     raised |-> error # NoError]

NoArgs == [none |-> None]

\* History kept for the properties, not handler state.
\* last: the callback processed last and whether it raised.
\* scenario: how far the callbacks processed since construction spell
\* start(A, no parent), start(B, parent A), end(B), end(A): "fresh", then
\* one step per callback to "done"; or spell start(B, parent A), start(A):
\* "startChild", "startParent"; "off" once they do neither.
ScenarioStep(op, run_id, parent_run_id, raised) ==
    IF raised THEN "off"
    ELSE IF scenario = "fresh" /\ op = "start" /\ parent_run_id = NoRun
    THEN "startA"
    ELSE IF scenario = "fresh" /\ op = "start" /\ parent_run_id # run_id
    THEN "startChild"
    ELSE IF scenario = "startChild" /\ op = "start" /\ run_id = last.parent
                                    /\ parent_run_id = NoRun
    THEN "startParent"
    ELSE IF scenario = "startA" /\ op = "start" /\ parent_run_id = last.run
                                /\ run_id # last.run
    THEN "startB"
    ELSE IF scenario = "startB" /\ op = "end" /\ run_id = last.run
    THEN "endB"
    ELSE IF scenario = "endB" /\ op = "end"
                              /\ RunStr(run_id) = remote_spans[1].id
    THEN "done"
    ELSE "off"

\* nothing processed yet: the tables as __init__ creates them, no call
\* received by any Langfuse client
NothingProcessed ==
    /\ run_to_trace_id = EmptyDict
    /\ run_to_observation_id = EmptyDict
    /\ trace_objects = EmptyDict
    /\ observation_objects = EmptyDict
    /\ uuid_count = 0
    /\ remote_traces = <<>>
    /\ remote_spans = <<>>
    /\ remote_flushes = 0
    /\ scenario = "fresh"

\* a CoaiapyLangfuseCallbackHandler after __init__ returned, with the
\* default flush_on_exit
Init ==
    /\ \E arg \in TraceIdArgs, env \in TraceIdEnvs :
           default_trace_id = PyOr(arg, env)
    /\ NothingProcessed
    /\ last = Event("init", NoRun, NoRun, NoError, FALSE)
    /\ LANGFUSE_AVAILABLE = TRUE
    /\ formatter = Absent
    /\ threads = NoThreads
    /\ langfuse_clients = 1
    /\ handler = [phase |-> "built", attrs |-> HandlerAttrs,
                  flush_on_exit |-> TRUE]
    /\ narrative = Absent
    /\ orchestrator = Absent

\* _get_parent_id returning None for every parent
GetParentId_Flat(rto, parent_run_id) == None

\* _get_parent_id
GetParentId(rto, parent_run_id) ==
    IF parent_run_id # NoRun THEN Get(rto, RunStr(parent_run_id)) ELSE None

\* what _get_or_create_trace leaves behind: the tables, the uuid4 calls
\* made, the langfuse.trace calls received, the id it returns and whether
\* langfuse.trace raised
TraceResult(rtt, tobj, uuids, rtraces, trace_id, raised) ==
    [rtt |-> rtt, tobj |-> tobj, uuids |-> uuids, rtraces |-> rtraces,
     trace_id |-> trace_id, raised |-> raised]

\* the trace created in Langfuse whether or not a handle is stored for it
RegisterTrace_Always(run_id_str, trace_id, uuids, fault) ==
    LET rtt == Put(run_to_trace_id, run_id_str, trace_id)
    IN  IF fault = "trace"
        THEN TraceResult(rtt, trace_objects, uuids, remote_traces, trace_id,
                         TRUE)
        ELSE TraceResult(rtt,
                         Put(trace_objects, trace_id, Len(remote_traces) + 1),
                         uuids, Append(remote_traces, trace_id), trace_id,
                         FALSE)

\* the trace of trace_id registered for the run, created in Langfuse when
\* it has no stored handle; uuids is the number of uuid4 calls made
RegisterTrace(run_id_str, trace_id, uuids, fault) ==
    LET rtt == Put(run_to_trace_id, run_id_str, trace_id)
    IN  IF trace_id \in DOMAIN trace_objects
        THEN TraceResult(rtt, trace_objects, uuids, remote_traces, trace_id,
                         FALSE)
        ELSE IF fault = "trace"
        THEN TraceResult(rtt, trace_objects, uuids, remote_traces, trace_id,
                         TRUE)
        ELSE TraceResult(rtt,
                         Put(trace_objects, trace_id, Len(remote_traces) + 1),
                         uuids, Append(remote_traces, trace_id), trace_id,
                         FALSE)

\* the new-trace branch with the default trace id never used
CreateTrace_IgnoreDefault(run_id_str, fault) ==
    RegisterTrace(run_id_str, UuidPool[uuid_count + 1], uuid_count + 1, fault)

\* the new-trace branch with one identifier synthesized for all runs
CreateTrace_SharedId(run_id_str, fault) ==
    IF default_trace_id \notin {None, ""}
    THEN RegisterTrace(run_id_str, default_trace_id, uuid_count, fault)
    ELSE RegisterTrace(run_id_str, UuidPool[1], uuid_count, fault)

\* the new-trace branch of _get_or_create_trace:
\* trace_id = self.default_trace_id or str(uuid.uuid4())
CreateTrace(run_id_str, fault) ==
    IF default_trace_id \notin {None, ""}
    THEN RegisterTrace(run_id_str, default_trace_id, uuid_count, fault)
    ELSE RegisterTrace(run_id_str, UuidPool[uuid_count + 1], uuid_count + 1,
                       fault)

\* self.run_to_trace_id.get(str(parent_run_id)) if parent_run_id
ParentTraceId(parent_run_id) ==
    IF parent_run_id # NoRun
    THEN Get(run_to_trace_id, RunStr(parent_run_id)) ELSE None

\* _get_or_create_trace without the parent branch
GetOrCreateTrace_NoInherit(run_id, parent_run_id, fault) ==
    IF RunStr(run_id) \in DOMAIN run_to_trace_id
    THEN TraceResult(run_to_trace_id, trace_objects, uuid_count,
                     remote_traces, run_to_trace_id[RunStr(run_id)], FALSE)
    ELSE CreateTrace(RunStr(run_id), fault)

\* _get_or_create_trace without the early return for a known run
GetOrCreateTrace_NoEarlyReturn(run_id, parent_run_id, fault) ==
    IF ParentTraceId(parent_run_id) \notin {None, ""}
    THEN TraceResult(Put(run_to_trace_id, RunStr(run_id),
                         ParentTraceId(parent_run_id)),
                     trace_objects, uuid_count, remote_traces,
                     ParentTraceId(parent_run_id), FALSE)
    ELSE CreateTrace(RunStr(run_id), fault)

\* _get_or_create_trace registering the new trace for the parent run too
GetOrCreateTrace_Adopts(run_id, parent_run_id, fault) ==
    IF RunStr(run_id) \in DOMAIN run_to_trace_id
    THEN TraceResult(run_to_trace_id, trace_objects, uuid_count,
                     remote_traces, run_to_trace_id[RunStr(run_id)], FALSE)
    ELSE IF ParentTraceId(parent_run_id) \notin {None, ""}
    THEN TraceResult(Put(run_to_trace_id, RunStr(run_id),
                         ParentTraceId(parent_run_id)),
                     trace_objects, uuid_count, remote_traces,
                     ParentTraceId(parent_run_id), FALSE)
    ELSE LET t == CreateTrace(RunStr(run_id), fault)
         IN  IF parent_run_id = NoRun THEN t
             ELSE [t EXCEPT !.rtt = Put(@, RunStr(parent_run_id), t.trace_id)]

\* _get_or_create_trace
GetOrCreateTrace(run_id, parent_run_id, fault) ==
    IF RunStr(run_id) \in DOMAIN run_to_trace_id
    THEN TraceResult(run_to_trace_id, trace_objects, uuid_count,
                     remote_traces, run_to_trace_id[RunStr(run_id)], FALSE)
    ELSE IF ParentTraceId(parent_run_id) \notin {None, ""}
    THEN TraceResult(Put(run_to_trace_id, RunStr(run_id),
                         ParentTraceId(parent_run_id)),
                     trace_objects, uuid_count, remote_traces,
                     ParentTraceId(parent_run_id), FALSE)
    ELSE CreateTrace(RunStr(run_id), fault)

\* the end() calls the client has received
RECURSIVE EndCalls(_)
EndCalls(spans) ==
    IF spans = <<>> THEN 0 ELSE Head(spans).ends + EndCalls(Tail(spans))

\* the span creations and closures the client has received
ClientCalls == Len(remote_spans) + EndCalls(remote_spans)

\* the record of one trace.span / trace.generation call
Observation(trace_id, id, name, parent_observation_id) ==
    [trace_id |-> trace_id, id |-> id, name |-> name,
     parent_observation_id |-> parent_observation_id,
     ends |-> 0, level |-> None, status_message |-> None, output |-> None]

\* the body shared by on_llm_start, on_chat_model_start, on_chain_start,
\* on_tool_start and on_retriever_start, name being the display name each
\* of them computes once the trace is there
StartObservation(run_id, parent_run_id, name, fault) ==
    LET t == GetOrCreateTrace(run_id, parent_run_id, fault)
        keyError == t.trace_id \notin DOMAIN t.tobj
        raised == t.raised \/ keyError \/ fault = "observation"
    IN  /\ fault \in {"none", "trace", "observation"}
        /\ fault = "trace" => t.raised
        /\ fault = "observation" => ~keyError
        /\ ClientCalls < MaxCalls
        /\ run_to_trace_id' = t.rtt
        /\ trace_objects' = t.tobj
        /\ uuid_count' = t.uuids
        /\ remote_traces' = t.rtraces
        /\ IF raised
           THEN UNCHANGED <<remote_spans, run_to_observation_id,
                            observation_objects>>
           ELSE /\ remote_spans' =
                       Append(remote_spans,
                              Observation(remote_traces'[t.tobj[t.trace_id]],
                                          RunStr(run_id), name,
                                          GetParentId(run_to_observation_id,
                                                      parent_run_id)))
                /\ run_to_observation_id' =
                       Put(run_to_observation_id, RunStr(run_id),
                           RunStr(run_id))
                /\ observation_objects' =
                       Put(observation_objects, RunStr(run_id),
                           Len(remote_spans) + 1)
        /\ last' = Event("start", run_id, parent_run_id, NoError, raised)
        /\ scenario' = ScenarioStep("start", run_id, parent_run_id, raised)
        /\ UNCHANGED default_trace_id
        /\ UNCHANGED lifecycle

on_llm_start(serialized, metadata, run_id, parent_run_id, fault) ==
    StartObservation(run_id, parent_run_id,
                     AddGlyph(ModelName(metadata, "LLM"), "llm"), fault)

on_chat_model_start(serialized, metadata, run_id, parent_run_id, fault) ==
    StartObservation(run_id, parent_run_id,
                     AddGlyph(ModelName(metadata, "ChatModel"), "chat"),
                     fault)

on_chain_start(serialized, run_id, parent_run_id, fault) ==
    StartObservation(run_id, parent_run_id,
                     AddGlyph(ChainName(serialized), "chain"), fault)

on_tool_start(serialized, run_id, parent_run_id, fault) ==
    StartObservation(run_id, parent_run_id,
                     AddGlyph(GetDefault(serialized, "name", "Tool"), "tool"),
                     fault)

on_retriever_start(serialized, run_id, parent_run_id, fault) ==
    StartObservation(run_id, parent_run_id,
                     AddGlyph(GetDefault(serialized, "name", "Retriever"),
                              "retriever"),
                     fault)

\* the end of a run with self.observation_objects[obs_id] indexed without
\* the membership test: a KeyError for a run that has no observation
EndObservation_Unchecked(op, run_id, error, output, level, status_message, fault) ==
    LET obs_id == Get(run_to_observation_id, RunStr(run_id))
        found == obs_id \notin {None, ""} /\ obs_id \in DOMAIN observation_objects
        h == observation_objects[obs_id]
    IN  /\ fault \in {"none", "end"}
        /\ fault = "end" => found
        /\ found => ClientCalls < MaxCalls
        /\ remote_spans' =
               IF found /\ fault = "none"
               THEN [remote_spans EXCEPT
                        ![h].ends = @ + 1,
                        ![h].output = output,
                        ![h].level = level,
                        ![h].status_message = status_message]
               ELSE remote_spans
        /\ last' = Event(op, run_id, NoRun, error, ~found \/ fault = "end")
        /\ scenario' = ScenarioStep(op, run_id, NoRun,
                                    ~found \/ fault = "end")
        /\ UNCHANGED <<default_trace_id, run_to_trace_id,
                       run_to_observation_id, trace_objects,
                       observation_objects, uuid_count,
                       remote_traces>>
        /\ UNCHANGED lifecycle

\* the end of a run that also drops the run's entries from the maps
EndObservation_Pop(op, run_id, error, output, level, status_message, fault) ==
    LET obs_id == Get(run_to_observation_id, RunStr(run_id))
        found == obs_id \notin {None, ""} /\ obs_id \in DOMAIN observation_objects
        h == observation_objects[obs_id]
    IN  /\ fault \in {"none", "end"}
        /\ fault = "end" => found
        /\ found => ClientCalls < MaxCalls
        /\ remote_spans' =
               IF found /\ fault = "none"
               THEN [remote_spans EXCEPT
                        ![h].ends = @ + 1,
                        ![h].output = output,
                        ![h].level = level,
                        ![h].status_message = status_message]
               ELSE remote_spans
        /\ run_to_trace_id' =
               [k \in DOMAIN run_to_trace_id \ {RunStr(run_id)} |->
                   run_to_trace_id[k]]
        /\ run_to_observation_id' =
               [k \in DOMAIN run_to_observation_id \ {RunStr(run_id)} |->
                   run_to_observation_id[k]]
        /\ last' = Event(op, run_id, NoRun, error, found /\ fault = "end")
        /\ scenario' = ScenarioStep(op, run_id, NoRun, found /\ fault = "end")
        /\ UNCHANGED <<default_trace_id, trace_objects,
                       observation_objects, uuid_count,
                       remote_traces>>
        /\ UNCHANGED lifecycle

\* the end of a run that also ends every other span of the run's trace
EndObservation_Cascade(op, run_id, error, output, level, status_message, fault) ==
    LET obs_id == Get(run_to_observation_id, RunStr(run_id))
        found == obs_id \notin {None, ""} /\ obs_id \in DOMAIN observation_objects
        h == observation_objects[obs_id]
    IN  /\ fault \in {"none", "end"}
        /\ fault = "end" => found
        /\ found => ClientCalls < MaxCalls
        /\ remote_spans' =
               IF found /\ fault = "none"
               THEN [i \in DOMAIN remote_spans |->
                       IF remote_spans[i].trace_id = remote_spans[h].trace_id
                       THEN [remote_spans[i] EXCEPT
                                !.ends = IF i = h \/ @ = 0 THEN @ + 1 ELSE @,
                                !.output = output,
                                !.level = level,
                                !.status_message = status_message]
                       ELSE remote_spans[i]]
               ELSE remote_spans
        /\ last' = Event(op, run_id, NoRun, error, found /\ fault = "end")
        /\ scenario' = ScenarioStep(op, run_id, NoRun, found /\ fault = "end")
        /\ UNCHANGED <<default_trace_id, run_to_trace_id,
                       run_to_observation_id, trace_objects,
                       observation_objects, uuid_count,
                       remote_traces>>
        /\ UNCHANGED lifecycle

\* the end of a run that ends every span named as the run's span is
EndObservation_ByName(op, run_id, error, output, level, status_message, fault) ==
    LET obs_id == Get(run_to_observation_id, RunStr(run_id))
        found == obs_id \notin {None, ""} /\ obs_id \in DOMAIN observation_objects
        h == observation_objects[obs_id]
    IN  /\ fault \in {"none", "end"}
        /\ fault = "end" => found
        /\ found => ClientCalls < MaxCalls
        /\ remote_spans' =
               IF found /\ fault = "none"
               THEN [i \in DOMAIN remote_spans |->
                       IF remote_spans[i].name = remote_spans[h].name
                       THEN [remote_spans[i] EXCEPT
                                !.ends = @ + 1,
                                !.output = output,
                                !.level = level,
                                !.status_message = status_message]
                       ELSE remote_spans[i]]
               ELSE remote_spans
        /\ last' = Event(op, run_id, NoRun, error, found /\ fault = "end")
        /\ scenario' = ScenarioStep(op, run_id, NoRun, found /\ fault = "end")
        /\ UNCHANGED <<default_trace_id, run_to_trace_id,
                       run_to_observation_id, trace_objects,
                       observation_objects, uuid_count,
                       remote_traces>>
        /\ UNCHANGED lifecycle

\* a dict without the key k
Drop(d, k) == [x \in DOMAIN d \ {k} |-> d[x]]

\* the closing callbacks deleting the entries of the run they close
EndObservation_Forgets(op, run_id, error, output, level, status_message, fault) ==
    LET obs_id == Get(run_to_observation_id, RunStr(run_id))
        found == obs_id \notin {None, ""} /\ obs_id \in DOMAIN observation_objects
        h == observation_objects[obs_id]
        closed == found /\ fault = "none"
    IN  /\ fault \in {"none", "end"}
        /\ fault = "end" => found
        /\ found => ClientCalls < MaxCalls
        /\ remote_spans' =
               IF closed
               THEN [remote_spans EXCEPT
                        ![h].ends = @ + 1,
                        ![h].output = output,
                        ![h].level = level,
                        ![h].status_message = status_message]
               ELSE remote_spans
        /\ run_to_trace_id' =
               IF closed THEN Drop(run_to_trace_id, RunStr(run_id))
               ELSE run_to_trace_id
        /\ run_to_observation_id' =
               IF closed THEN Drop(run_to_observation_id, RunStr(run_id))
               ELSE run_to_observation_id
        /\ last' = Event(op, run_id, NoRun, error, found /\ fault = "end")
        /\ scenario' = ScenarioStep(op, run_id, NoRun, found /\ fault = "end")
        /\ UNCHANGED <<default_trace_id, trace_objects,
                       observation_objects, uuid_count,
                       remote_traces>>
        /\ UNCHANGED lifecycle

\* obs.end(**kwargs) on the handle stored for obs_id: the client receives
\* one more end call carrying these arguments (fault = "end": it raises)
EndObservation(op, run_id, error, output, level, status_message, fault) ==
    LET obs_id == Get(run_to_observation_id, RunStr(run_id))
        found == obs_id \notin {None, ""} /\ obs_id \in DOMAIN observation_objects
        h == observation_objects[obs_id]
    IN  /\ fault \in {"none", "end"}
        /\ fault = "end" => found
        /\ found => ClientCalls < MaxCalls
        /\ remote_spans' =
               IF found /\ fault = "none"
               THEN [remote_spans EXCEPT
                        ![h].ends = @ + 1,
                        ![h].output = output,
                        ![h].level = level,
                        ![h].status_message = status_message]
               ELSE remote_spans
        /\ last' = Event(op, run_id, NoRun, error, found /\ fault = "end")
        /\ scenario' = ScenarioStep(op, run_id, NoRun, found /\ fault = "end")
        /\ UNCHANGED <<default_trace_id, run_to_trace_id,
                       run_to_observation_id, trace_objects,
                       observation_objects, uuid_count,
                       remote_traces>>
        /\ UNCHANGED lifecycle

on_run_end(outputs, run_id, fault) ==
    EndObservation("end", run_id, NoError, outputs, None, None, fault)

\* on_run_error passing the exception's argument instead of str(error)
on_run_error_RawArg(error, run_id, fault) ==
    EndObservation("error", run_id, error,
                   [error |-> error.args[1], error_type |-> TypeName(error)],
                   "ERROR", error.args[1], fault)

on_run_error(error, run_id, fault) ==
    EndObservation("error", run_id, error,
                   [error |-> PyStr(error), error_type |-> TypeName(error)],
                   "ERROR", PyStr(error), fault)

\* response.generations is one list holding one generation with this text
on_llm_end(text, run_id, fault) ==
    EndObservation("end", run_id, NoError, <<text>>, None, None, fault)

on_llm_error(error, run_id, fault) == on_run_error(error, run_id, fault)

on_chain_end(outputs, run_id, fault) == on_run_end(outputs, run_id, fault)

on_chain_error(error, run_id, fault) == on_run_error(error, run_id, fault)

on_tool_end(output, run_id, fault) == on_run_end(output, run_id, fault)

on_tool_error(error, run_id, fault) == on_run_error(error, run_id, fault)

on_retriever_end(documents, run_id, fault) ==
    on_run_end([documents |-> documents, count |-> Len(documents)], run_id,
               fault)

on_retriever_error(error, run_id, fault) == on_run_error(error, run_id, fault)

\* ---------------------------------------------------------- specifications
\* the callbacks, the Langfuse client raising where RemoteFaults allows,
\* the start callbacks given the dicts of Serialized and Metadata
StartCallbacks(RemoteFaults, Serialized, Metadata) ==
    \/ \E s \in Serialized, m \in Metadata, r \in Runs, p \in OptRuns,
          f \in RemoteFaults : on_llm_start(s, m, r, p, f)
    \/ \E s \in Serialized, m \in Metadata, r \in Runs, p \in OptRuns,
          f \in RemoteFaults : on_chat_model_start(s, m, r, p, f)
    \/ \E s \in Serialized, r \in Runs, p \in OptRuns, f \in RemoteFaults :
           on_chain_start(s, r, p, f)
    \/ \E s \in Serialized, r \in Runs, p \in OptRuns, f \in RemoteFaults :
           on_tool_start(s, r, p, f)
    \/ \E s \in Serialized, r \in Runs, p \in OptRuns, f \in RemoteFaults :
           on_retriever_start(s, r, p, f)

EndCallbacks(RemoteFaults) ==
    \/ \E r \in Runs, o \in Outputs, f \in RemoteFaults : on_run_end(o, r, f)
    \/ \E r \in Runs, t \in Texts, f \in RemoteFaults : on_llm_end(t, r, f)
    \/ \E r \in Runs, o \in Outputs, f \in RemoteFaults : on_chain_end(o, r, f)
    \/ \E r \in Runs, o \in Outputs, f \in RemoteFaults : on_tool_end(o, r, f)
    \/ \E r \in Runs, d \in Documents, f \in RemoteFaults :
           on_retriever_end(d, r, f)

ErrorCallbacks(RemoteFaults) ==
    \/ \E r \in Runs, e \in Errors, f \in RemoteFaults : on_run_error(e, r, f)
    \/ \E r \in Runs, e \in Errors, f \in RemoteFaults : on_llm_error(e, r, f)
    \/ \E r \in Runs, e \in Errors, f \in RemoteFaults : on_chain_error(e, r, f)
    \/ \E r \in Runs, e \in Errors, f \in RemoteFaults : on_tool_error(e, r, f)
    \/ \E r \in Runs, e \in Errors, f \in RemoteFaults :
           on_retriever_error(e, r, f)

\* any callback of the handler
Callbacks(RemoteFaults, Serialized, Metadata) ==
    \/ StartCallbacks(RemoteFaults, Serialized, Metadata)
    \/ EndCallbacks(RemoteFaults)
    \/ ErrorCallbacks(RemoteFaults)

\* the Langfuse client never raises
Next == Callbacks({"none"}, PlainSerialized, PlainMetadata)

Spec == Init /\ [][Next]_vars

\* the Langfuse client may raise in any call
NextFaulty == Callbacks(Faults, PlainSerialized, PlainMetadata)

SpecFaulty == Init /\ [][NextFaulty]_vars

\* the first MaxShortCalls calls the client receives
NextShort == ClientCalls < MaxShortCalls /\ Next

SpecShort == Init /\ [][NextShort]_vars

\* runs that start and end and never fail
NextQuiet ==
    \/ StartCallbacks({"none"}, PlainSerialized, PlainMetadata)
    \/ EndCallbacks({"none"})

SpecQuiet == Init /\ [][NextQuiet]_vars

\* a handler that receives the callbacks of chains only
NextChains ==
    \/ \E s \in PlainSerialized, r \in Runs, p \in OptRuns :
           on_chain_start(s, r, p, "none")
    \/ \E r \in Runs, o \in Outputs : on_chain_end(o, r, "none")
    \/ \E r \in Runs, e \in Errors : on_chain_error(e, r, "none")

SpecChains == Init /\ [][NextChains]_vars

\* the callbacks given declared names of every shape, up to MaxNamedCalls
\* calls received by the client
NextNamed ==
    /\ ClientCalls < MaxNamedCalls
    /\ Callbacks({"none"}, NamedSerialized, NamedMetadata)

SpecNamed == Init /\ [][NextNamed]_vars

\* ------------------------------------------ the handler from __init__ to __del__
\* __init__ constructing the Langfuse client before it tests the flag
Handler__init__ClientFirst(trace_id, env_trace_id, flush_on_exit) ==
    /\ handler.phase = "new"
    /\ langfuse_clients' = langfuse_clients + 1
    /\ IF ~LANGFUSE_AVAILABLE
       THEN /\ handler' = [handler EXCEPT !.phase = "failed",
                                          !.attrs = {"langfuse"}]
            /\ last' = Call("__init__", NoArgs, None, ImportError)
            /\ UNCHANGED default_trace_id
       ELSE /\ handler' = [phase |-> "built", attrs |-> HandlerAttrs,
                           flush_on_exit |-> flush_on_exit]
            /\ default_trace_id' = PyOr(trace_id, env_trace_id)
            /\ last' = Call("__init__", NoArgs, None, NoError)
    /\ UNCHANGED <<tables, uuid_count, remote, remote_flushes, scenario,
                   LANGFUSE_AVAILABLE,
                   formatter, threads, narrative, orchestrator>>

\* CoaiapyLangfuseCallbackHandler.__init__: ImportError before anything is
\* set when the langfuse import failed; otherwise the configuration, the
\* Langfuse client and the empty tables
Handler__init__(trace_id, env_trace_id, flush_on_exit) ==
    /\ handler.phase = "new"
    /\ IF ~LANGFUSE_AVAILABLE
       THEN /\ handler' = [handler EXCEPT !.phase = "failed"]
            /\ last' = Call("__init__", NoArgs, None, ImportError)
            /\ UNCHANGED <<default_trace_id, langfuse_clients>>
       ELSE /\ handler' = [phase |-> "built", attrs |-> HandlerAttrs,
                           flush_on_exit |-> flush_on_exit]
            /\ default_trace_id' = PyOr(trace_id, env_trace_id)
            /\ langfuse_clients' = langfuse_clients + 1
            /\ last' = Call("__init__", NoArgs, None, NoError)
    /\ UNCHANGED <<tables, uuid_count, remote, remote_flushes, scenario,
                   LANGFUSE_AVAILABLE,
                   formatter, threads, narrative, orchestrator>>

\* flush that ends the spans no end or error event has closed
flush_EndsOpenSpans(fault) ==
    LET called == "langfuse" \in handler.attrs
        client_error == IF called /\ fault = "flush" THEN RemoteError
                        ELSE NoError
    IN  /\ handler.phase = "built"
        /\ fault = "flush" => called
        /\ remote_flushes' = IF called THEN remote_flushes + 1
                                       ELSE remote_flushes
        /\ remote_spans' =
               [i \in DOMAIN remote_spans |->
                   IF remote_spans[i].ends = 0
                   THEN [remote_spans[i] EXCEPT !.ends = 1]
                   ELSE remote_spans[i]]
        /\ last' = Call("flush", [client_error |-> client_error], None,
                        client_error)
        /\ scenario' = "off"
        /\ UNCHANGED <<default_trace_id, tables, uuid_count, remote_traces,
                       LANGFUSE_AVAILABLE,
                       formatter, threads, langfuse_clients, handler,
                       narrative, orchestrator>>

\* CoaiapyLangfuseCallbackHandler.flush: one langfuse.flush() when the
\* client attribute exists; what the client raises reaches the caller
flush(fault) ==
    LET called == "langfuse" \in handler.attrs
        client_error == IF called /\ fault = "flush" THEN RemoteError
                        ELSE NoError
    IN  /\ handler.phase = "built"
        /\ fault = "flush" => called
        /\ remote_flushes' = IF called THEN remote_flushes + 1
                                       ELSE remote_flushes
        /\ last' = Call("flush", [client_error |-> client_error], None,
                        client_error)
        /\ scenario' = "off"
        /\ UNCHANGED <<default_trace_id, tables, uuid_count, remote,
                       LANGFUSE_AVAILABLE,
                       formatter, threads, langfuse_clients, handler,
                       narrative, orchestrator>>

\* CoaiapyLangfuseCallbackHandler.__del__, also run for an object whose
\* __init__ raised: reading self.flush_on_exit of such an object raises
\* AttributeError inside the try; every Exception is discarded
Handler__del__(fault) ==
    LET called == /\ "flush_on_exit" \in handler.attrs
                  /\ handler.flush_on_exit
                  /\ "langfuse" \in handler.attrs
        inner == IF "flush_on_exit" \notin handler.attrs THEN AttributeError
                 ELSE IF called /\ fault = "flush" THEN RemoteError
                 ELSE NoError
    IN  /\ handler.phase \in {"built", "failed"}
        /\ fault = "flush" => called
        /\ remote_flushes' = IF called THEN remote_flushes + 1
                                       ELSE remote_flushes
        /\ handler' = [handler EXCEPT !.phase = "deleted"]
        /\ last' = Call("__del__", [inner |-> inner], None,
                        ExceptException(inner))
        /\ scenario' = "off"
        /\ UNCHANGED <<default_trace_id, tables, uuid_count, remote,
                       LANGFUSE_AVAILABLE, formatter, threads, langfuse_clients,
                       narrative, orchestrator>>

\* the program about to construct a CoaiapyLangfuseCallbackHandler
InitLifecycle ==
    /\ LANGFUSE_AVAILABLE \in BOOLEAN
    /\ formatter = Absent
    /\ threads = NoThreads
    /\ langfuse_clients = 0
    /\ handler = [phase |-> "new", attrs |-> {}, flush_on_exit |-> FALSE]
    /\ default_trace_id = None
    /\ NothingProcessed
    /\ last = Call("new", NoArgs, None, NoError)
    /\ narrative = Absent
    /\ orchestrator = Absent

\* the calls the handler's client has received, flushes included
LifecycleCalls == ClientCalls + remote_flushes

\* construction, the callbacks and flush() of a built handler, teardown;
\* the client's flush() may raise
NextLifecycle ==
    \/ \E t \in TraceIdArgs, e \in TraceIdEnvs, x \in BOOLEAN :
           Handler__init__(t, e, x)
    \/ /\ handler.phase = "built"
       /\ LifecycleCalls < MaxLifecycleCalls
       /\ Callbacks({"none"}, PlainSerialized, PlainMetadata)
    \/ /\ LifecycleCalls < MaxLifecycleCalls
       /\ \E f \in FlushFaults : flush(f)
    \/ \E f \in FlushFaults : Handler__del__(f)

SpecLifecycle == InitLifecycle /\ [][NextLifecycle]_vars

\* ----------------------------------------------- NarrativeTraceOrchestrator
\* Abstractions: RootTrace objects live in orchestrator.roots and are
\* referred to by their position there (active_traces and the caller hold
\* references); orchestrator.langfuse is the list of calls its Langfuse
\* client and the trace handles received; timestamps are not kept beyond
\* end_time being set; display names, inputs and metadata are not kept.
TRACE_ID_HEADER == "X-Narrative-Trace-Id"
STORY_ID_HEADER == "X-Story-Id"
SESSION_ID_HEADER == "X-Session-Id"
PARENT_SPAN_HEADER == "X-Parent-Span-Id"

OrchestratorAttrs == {"langfuse", "active_traces", "spans"}

StoryIds == {"s1", "s2"}
SessionIdArgs == {None, "S"}
SessionIdEnvs == {None, "E"}
RootTraceIdArgs == {None, "T"}
ParentSpanIds == {None, "", "p1"}
\* the parent span ids handed to the span creation methods
SpanParents == {None, "p1"}
FinalStories == {None, "story"}
SpanErrors == {"failed"}
OutputData == {"out"}
Backends == {"flowise"}
\* the system names and the external trace ids handed to add_child and
\* link_external_trace
Systems == {"flowise", "langflow", "langchain"}
ExternalTraceIds == {"e1", "e2"}
\* the header maps handed to inject_correlation_header
HeaderMaps ==
    { EmptyDict,
      [h \in {PARENT_SPAN_HEADER} |-> "p0"] }
\* the header maps of inbound requests
InboundHeaders ==
    { EmptyDict,
      [h \in {TRACE_ID_HEADER, PARENT_SPAN_HEADER} |->
          IF h = TRACE_ID_HEADER THEN "trace_123" ELSE "span_abc"] }
OrchestratorFaults == {"none", "update", "flush"}

UnknownTrace == [type |-> "ValueError", args |-> <<"Unknown trace ID">>]

\* NarrativeTraceOrchestrator.__init__
Orchestrator__init__ ==
    /\ orchestrator.phase = "new"
    /\ IF ~LANGFUSE_AVAILABLE
       THEN /\ orchestrator' = [orchestrator EXCEPT !.phase = "failed"]
            /\ last' = Call("__init__", NoArgs, None, ImportError)
            /\ UNCHANGED langfuse_clients
       ELSE /\ orchestrator' =
                   [phase |-> "built", attrs |-> OrchestratorAttrs,
                    calls |-> 0, roots |-> <<>>,
                    active_traces |-> EmptyDict, spans |-> EmptyDict,
                    langfuse |-> <<>>]
            /\ langfuse_clients' = langfuse_clients + 1
            /\ last' = Call("__init__", NoArgs, None, NoError)
    /\ UNCHANGED <<default_trace_id, tables, uuid_count, remote,
                   remote_flushes, scenario, LANGFUSE_AVAILABLE,
                   formatter, threads, handler,
                   narrative>>

\* what every orchestrator method leaves alone
OrchestratorFrame ==
    UNCHANGED <<default_trace_id, tables, remote, remote_flushes, scenario,
                LANGFUSE_AVAILABLE,
                formatter, threads, langfuse_clients, handler, narrative>>

\* one more call made on the orchestrator
Called(o) == [o EXCEPT !.calls = @ + 1]

\* create_story_generation_root
create_story_generation_root(story_id, session_id, trace_id, env_session_id) ==
    LET o == orchestrator
        tid == IF trace_id \notin {None, ""} THEN trace_id
               ELSE UuidPool[uuid_count + 1]
        n1 == IF trace_id \notin {None, ""} THEN uuid_count
              ELSE uuid_count + 1
        \* os.environ.get("COAIAPY_SESSION_ID", str(uuid.uuid4())): the
        \* default is computed whether or not the variable is set
        sid == IF session_id \notin {None, ""} THEN session_id
               ELSE IF env_session_id # None THEN env_session_id
               ELSE UuidPool[n1 + 1]
        n2 == IF session_id \notin {None, ""} THEN n1 ELSE n1 + 1
        root == [trace_id |-> tid, story_id |-> story_id, session_id |-> sid,
                 trace_object |-> Len(o.langfuse) + 1,
                 child_span_ids |-> <<>>,
                 child_trace_ids |-> <<>>,
                 correlation_path |-> <<"langchain">>]
    IN  /\ o.phase = "built"
        /\ orchestrator' =
               [Called(o) EXCEPT
                   !.langfuse = Append(@, [method |-> "trace", id |-> tid,
                                           session_id |-> sid]),
                   !.roots = Append(@, root),
                   !.active_traces = Put(@, tid, Len(o.roots) + 1)]
        /\ uuid_count' = n2
        /\ last' = Call("create_story_generation_root",
                        [story_id |-> story_id, session_id |-> session_id,
                         trace_id |-> trace_id],
                        Len(o.roots) + 1, NoError)
        /\ OrchestratorFrame

\* the NarrativeSpan a creation method tracks
NarrativeSpan(span_id, trace_id, event_type, story_id, session_id) ==
    [span_id |-> span_id, trace_id |-> trace_id, event_type |-> event_type,
     story_id |-> story_id, session_id |-> session_id,
     output_data |-> None, end_time |-> None, success |-> TRUE,
     error |-> None]

\* the part the four creation methods share, with the span id appended to
\* the child list of every root there is
CreateSpan_EveryRoot(op, r, args, event_type, parent_span_id, backend) ==
    LET o == orchestrator
        root == o.roots[r]
        span_id == UuidPool[uuid_count + 1]
        path == root.correlation_path
    IN  /\ orchestrator' =
               [Called(o) EXCEPT
                   !.langfuse =
                       Append(@, [method |-> "span",
                                  trace |-> root.trace_object,
                                  id |-> span_id,
                                  parent_observation_id |-> parent_span_id]),
                   !.spans = Put(@, span_id,
                                 NarrativeSpan(span_id, root.trace_id,
                                               event_type, root.story_id,
                                               root.session_id)),
                   !.roots =
                       [i \in DOMAIN o.roots |->
                           [o.roots[i] EXCEPT
                               !.child_span_ids = Append(@, span_id),
                               !.correlation_path =
                                   IF i = r /\ backend # None
                                      /\ \A j \in DOMAIN path :
                                             path[j] # backend
                                   THEN Append(@, backend) ELSE @]]]
        /\ uuid_count' = uuid_count + 1
        /\ last' = Call(op, args, span_id, NoError)
        /\ OrchestratorFrame

\* the part the four creation methods share: the span created on the
\* root's trace handle, tracked in spans and appended to the root's
\* child_span_ids; backend is None but for create_agent_flow_span
CreateSpan(op, r, args, event_type, parent_span_id, backend) ==
    LET o == orchestrator
        root == o.roots[r]
        span_id == UuidPool[uuid_count + 1]
        path == root.correlation_path
    IN  /\ orchestrator' =
               [Called(o) EXCEPT
                   !.langfuse =
                       Append(@, [method |-> "span",
                                  trace |-> root.trace_object,
                                  id |-> span_id,
                                  parent_observation_id |-> parent_span_id]),
                   !.spans = Put(@, span_id,
                                 NarrativeSpan(span_id, root.trace_id,
                                               event_type, root.story_id,
                                               root.session_id)),
                   !.roots[r].child_span_ids = Append(@, span_id),
                   !.roots[r].correlation_path =
                       IF backend # None
                          /\ \A i \in DOMAIN path : path[i] # backend
                       THEN Append(@, backend) ELSE @]
        /\ uuid_count' = uuid_count + 1
        /\ last' = Call(op, args, span_id, NoError)
        /\ OrchestratorFrame

\* the lookup self.active_traces[trace_id] made without the check before it
RaiseUnknownTrace_KeyError(op, args) ==
    /\ orchestrator' = Called(orchestrator)
    /\ last' = Call(op, args, None, [type |-> "KeyError", args |-> <<>>])
    /\ UNCHANGED uuid_count
    /\ OrchestratorFrame

\* a creation method called with a trace id that is not active
RaiseUnknownTrace(op, args) ==
    /\ orchestrator' = Called(orchestrator)
    /\ last' = Call(op, args, None, UnknownTrace)
    /\ UNCHANGED uuid_count
    /\ OrchestratorFrame

\* create_beat_span: the caller passes a RootTrace object it holds
create_beat_span(root_trace, parent_span_id) ==
    /\ orchestrator.phase = "built"
    /\ root_trace \in DOMAIN orchestrator.roots
    /\ CreateSpan("create_beat_span",
                  root_trace,
                  [trace_id |-> orchestrator.roots[root_trace].trace_id,
                   parent_span_id |-> parent_span_id],
                  "BEAT_CREATED", parent_span_id, None)

create_analysis_span(trace_id, parent_span_id) ==
    LET args == [trace_id |-> trace_id, parent_span_id |-> parent_span_id]
    IN  /\ orchestrator.phase = "built"
        /\ IF trace_id \notin DOMAIN orchestrator.active_traces
           THEN RaiseUnknownTrace("create_analysis_span", args)
           ELSE CreateSpan("create_analysis_span",
                           orchestrator.active_traces[trace_id], args,
                           "BEAT_ANALYZED", parent_span_id, None)

create_agent_flow_span(backend, trace_id, parent_span_id) ==
    LET args == [backend |-> backend, trace_id |-> trace_id,
                 parent_span_id |-> parent_span_id]
    IN  /\ orchestrator.phase = "built"
        /\ IF trace_id \notin DOMAIN orchestrator.active_traces
           THEN RaiseUnknownTrace("create_agent_flow_span", args)
           ELSE CreateSpan("create_agent_flow_span",
                           orchestrator.active_traces[trace_id], args,
                           "FLOW_EXECUTED", parent_span_id, backend)

create_enrichment_span(trace_id, parent_span_id) ==
    LET args == [trace_id |-> trace_id, parent_span_id |-> parent_span_id]
    IN  /\ orchestrator.phase = "built"
        /\ IF trace_id \notin DOMAIN orchestrator.active_traces
           THEN RaiseUnknownTrace("create_enrichment_span", args)
           ELSE CreateSpan("create_enrichment_span",
                           orchestrator.active_traces[trace_id], args,
                           "BEAT_ENRICHED", parent_span_id, None)

\* update_span_output marking the span successful again
update_span_output_ClearsError(span_id, output_data) ==
    LET o == orchestrator
    IN  /\ o.phase = "built"
        /\ orchestrator' =
               IF span_id \in DOMAIN o.spans
               THEN [Called(o) EXCEPT
                        !.spans[span_id].output_data = output_data,
                        !.spans[span_id].success = TRUE,
                        !.spans[span_id].error = None,
                        !.spans[span_id].end_time = "now"]
               ELSE Called(o)
        /\ last' = Call("update_span_output", [span_id |-> span_id], None,
                        NoError)
        /\ UNCHANGED uuid_count
        /\ OrchestratorFrame

\* update_span_output: the tracked span only; no call on the client
update_span_output(span_id, output_data) ==
    LET o == orchestrator
    IN  /\ o.phase = "built"
        /\ orchestrator' =
               IF span_id \in DOMAIN o.spans
               THEN [Called(o) EXCEPT
                        !.spans[span_id].output_data = output_data,
                        !.spans[span_id].end_time = "now"]
               ELSE Called(o)
        /\ last' = Call("update_span_output", [span_id |-> span_id], None,
                        NoError)
        /\ UNCHANGED uuid_count
        /\ OrchestratorFrame

\* mark_span_error: the tracked span only; no call on the client
mark_span_error(span_id, error) ==
    LET o == orchestrator
    IN  /\ o.phase = "built"
        /\ orchestrator' =
               IF span_id \in DOMAIN o.spans
               THEN [Called(o) EXCEPT
                        !.spans[span_id].success = FALSE,
                        !.spans[span_id].error = error,
                        !.spans[span_id].end_time = "now"]
               ELSE Called(o)
        /\ last' = Call("mark_span_error", [span_id |-> span_id], None,
                        NoError)
        /\ UNCHANGED uuid_count
        /\ OrchestratorFrame

\* inject_correlation_header reading the story and the session of the root
\* created first instead of the root of the trace
InjectCorrelationHeader_FirstRoot(headers, trace_id, parent_span_id) ==
    IF trace_id \notin {None, ""}
       /\ trace_id \in DOMAIN orchestrator.active_traces
    THEN LET root == orchestrator.roots[1]
             h3 == Put(Put(Put(headers, TRACE_ID_HEADER, trace_id),
                           STORY_ID_HEADER, root.story_id),
                       SESSION_ID_HEADER, root.session_id)
         IN  IF parent_span_id \notin {None, ""}
             THEN Put(h3, PARENT_SPAN_HEADER, parent_span_id)
             ELSE h3
    ELSE headers

\* the map inject_correlation_header returns (the map passed in, updated)
InjectCorrelationHeader(headers, trace_id, parent_span_id) ==
    IF trace_id \notin {None, ""}
       /\ trace_id \in DOMAIN orchestrator.active_traces
    THEN LET root == orchestrator.roots[orchestrator.active_traces[trace_id]]
             h3 == Put(Put(Put(headers, TRACE_ID_HEADER, trace_id),
                           STORY_ID_HEADER, root.story_id),
                       SESSION_ID_HEADER, root.session_id)
         IN  IF parent_span_id \notin {None, ""}
             THEN Put(h3, PARENT_SPAN_HEADER, parent_span_id)
             ELSE h3
    ELSE headers

\* extract_correlation_header with the story and session members swapped
ExtractCorrelationHeader_Swapped(headers) ==
    <<Get(headers, TRACE_ID_HEADER), Get(headers, SESSION_ID_HEADER),
      Get(headers, STORY_ID_HEADER), Get(headers, PARENT_SPAN_HEADER)>>

\* the tuple extract_correlation_header returns
ExtractCorrelationHeader(headers) ==
    <<Get(headers, TRACE_ID_HEADER), Get(headers, STORY_ID_HEADER),
      Get(headers, SESSION_ID_HEADER), Get(headers, PARENT_SPAN_HEADER)>>

inject_correlation_header(headers, trace_id, parent_span_id) ==
    /\ orchestrator.phase = "built"
    /\ orchestrator' = Called(orchestrator)
    /\ last' = Call("inject_correlation_header",
                    [headers |-> headers, trace_id |-> trace_id,
                     parent_span_id |-> parent_span_id],
                    InjectCorrelationHeader(headers, trace_id,
                                            parent_span_id),
                    NoError)
    /\ UNCHANGED uuid_count
    /\ OrchestratorFrame

extract_correlation_header(headers) ==
    /\ orchestrator.phase = "built"
    /\ orchestrator' = Called(orchestrator)
    /\ last' = Call("extract_correlation_header", [headers |-> headers],
                    ExtractCorrelationHeader(headers), NoError)
    /\ UNCHANGED uuid_count
    /\ OrchestratorFrame

\* the members of seq that satisfy Keep, in order
RECURSIVE SelectIds(_, _)
SelectIds(ids, keep) ==
    IF ids = <<>> THEN <<>>
    ELSE IF Head(ids) \in keep
         THEN <<Head(ids)>> \o SelectIds(Tail(ids), keep)
         ELSE SelectIds(Tail(ids), keep)

\* finalize_story_trace forgetting every tracked span
finalize_story_trace_ClearsAll(trace_id, final_story, fault) ==
    LET o == orchestrator
        args == [trace_id |-> trace_id]
    IN  /\ o.phase = "built"
        /\ IF trace_id \notin DOMAIN o.active_traces
           THEN /\ fault = "none"
                /\ RaiseUnknownTrace("finalize_story_trace", args)
           ELSE LET root == o.roots[o.active_traces[trace_id]]
                    ids == SelectIds(root.child_span_ids, DOMAIN o.spans)
                    spans == [i \in DOMAIN ids |-> o.spans[ids[i]]]
                    beat_count ==
                        Cardinality({i \in DOMAIN spans :
                                        spans[i].event_type = "BEAT_CREATED"})
                    completed ==
                        [trace_id |-> trace_id, story_id |-> root.story_id,
                         session_id |-> root.session_id, spans |-> spans,
                         story_content |-> final_story,
                         beat_count |-> beat_count,
                         correlation_path |-> root.correlation_path]
                    update == [method |-> "update",
                               trace |-> root.trace_object,
                               final_story_preview |-> final_story,
                               beat_count |-> beat_count]
                    cleaned ==
                        [Called(o) EXCEPT
                            !.active_traces =
                                [t \in DOMAIN @ \ {trace_id} |-> @[t]],
                            !.spans = EmptyDict]
                IN  /\ orchestrator' =
                           IF fault = "update" THEN Called(o)
                           ELSE [cleaned EXCEPT
                                    !.langfuse =
                                        @ \o <<update, [method |-> "flush"]>>]
                    /\ last' = Call("finalize_story_trace", args,
                                    IF fault = "none" THEN completed ELSE None,
                                    IF fault = "none" THEN NoError
                                                      ELSE RemoteError)
                    /\ UNCHANGED uuid_count
                    /\ OrchestratorFrame

\* finalize_story_trace: the trace handle updated, the trace and the spans
\* of its child list forgotten, the client flushed; an error of the client
\* in update() leaves the tables as they were, one in flush() leaves them
\* cleaned up
finalize_story_trace(trace_id, final_story, fault) ==
    LET o == orchestrator
        args == [trace_id |-> trace_id]
    IN  /\ o.phase = "built"
        /\ IF trace_id \notin DOMAIN o.active_traces
           THEN /\ fault = "none"
                /\ RaiseUnknownTrace("finalize_story_trace", args)
           ELSE LET root == o.roots[o.active_traces[trace_id]]
                    ids == SelectIds(root.child_span_ids, DOMAIN o.spans)
                    spans == [i \in DOMAIN ids |-> o.spans[ids[i]]]
                    beat_count ==
                        Cardinality({i \in DOMAIN spans :
                                        spans[i].event_type = "BEAT_CREATED"})
                    completed ==
                        [trace_id |-> trace_id, story_id |-> root.story_id,
                         session_id |-> root.session_id, spans |-> spans,
                         story_content |-> final_story,
                         beat_count |-> beat_count,
                         correlation_path |-> root.correlation_path]
                    update == [method |-> "update",
                               trace |-> root.trace_object,
                               final_story_preview |-> final_story,
                               beat_count |-> beat_count]
                    cleaned ==
                        [Called(o) EXCEPT
                            !.active_traces =
                                [t \in DOMAIN @ \ {trace_id} |-> @[t]],
                            !.spans =
                                [x \in DOMAIN @ \ Range(root.child_span_ids)
                                    |-> @[x]]]
                IN  /\ orchestrator' =
                           IF fault = "update" THEN Called(o)
                           ELSE [cleaned EXCEPT
                                    !.langfuse =
                                        @ \o <<update, [method |-> "flush"]>>]
                    /\ last' = Call("finalize_story_trace", args,
                                    IF fault = "none" THEN completed ELSE None,
                                    IF fault = "none" THEN NoError
                                                      ELSE RemoteError)
                    /\ UNCHANGED uuid_count
                    /\ OrchestratorFrame

\* TraceCorrelation.add_child appending the system name at every call
AddChild_EveryCall(root, trace_id, system) ==
    [root EXCEPT !.child_trace_ids = Append(@, trace_id),
                 !.correlation_path = Append(@, system)]

\* TraceCorrelation.add_child, on the correlation of a root
AddChild(root, trace_id, system) ==
    [root EXCEPT !.child_trace_ids = Append(@, trace_id),
                 !.correlation_path =
                     IF system \in Range(@) THEN @ ELSE Append(@, system)]

\* root_trace.correlation.add_child(trace_id, system) called by the holder
\* of a RootTrace; counted with the calls made on the orchestrator
add_child(root_trace, trace_id, system) ==
    /\ orchestrator.phase = "built"
    /\ root_trace \in DOMAIN orchestrator.roots
    /\ orchestrator' =
           [Called(orchestrator) EXCEPT
               !.roots[root_trace] = AddChild(@, trace_id, system)]
    /\ last' = Call("add_child",
                    [root_trace |-> root_trace, trace_id |-> trace_id,
                     system |-> system],
                    None, NoError)
    /\ UNCHANGED uuid_count
    /\ OrchestratorFrame

\* link_external_trace: nothing for a trace id that is not active
link_external_trace(trace_id, external_trace_id, external_system) ==
    LET o == orchestrator
    IN  /\ o.phase = "built"
        /\ orchestrator' =
               IF trace_id \in DOMAIN o.active_traces
               THEN [Called(o) EXCEPT
                        !.roots[o.active_traces[trace_id]] =
                            AddChild(@, external_trace_id, external_system)]
               ELSE Called(o)
        /\ last' = Call("link_external_trace",
                        [trace_id |-> trace_id,
                         external_trace_id |-> external_trace_id,
                         external_system |-> external_system],
                        None, NoError)
        /\ UNCHANGED uuid_count
        /\ OrchestratorFrame

\* NarrativeTraceOrchestrator.flush
Orchestrator_flush(fault) ==
    /\ orchestrator.phase = "built"
    /\ orchestrator' =
           [Called(orchestrator) EXCEPT
               !.langfuse = Append(@, [method |-> "flush"])]
    /\ last' = Call("flush",
                    [client_error |-> IF fault = "flush" THEN RemoteError
                                                         ELSE NoError],
                    None,
                    IF fault = "flush" THEN RemoteError ELSE NoError)
    /\ UNCHANGED uuid_count
    /\ OrchestratorFrame

\* the program about to construct a NarrativeTraceOrchestrator
InitOrchestrator ==
    /\ LANGFUSE_AVAILABLE \in BOOLEAN
    /\ formatter = Absent
    /\ threads = NoThreads
    /\ langfuse_clients = 0
    /\ orchestrator = [phase |-> "new", attrs |-> {}]
    /\ handler = Absent
    /\ narrative = Absent
    /\ default_trace_id = None
    /\ NothingProcessed
    /\ last = Call("new", NoArgs, None, NoError)

\* the trace ids, span ids and root objects a caller can pass
KnownTraceIds ==
    {orchestrator.roots[i].trace_id : i \in DOMAIN orchestrator.roots}
        \cup {"zz"}
KnownSpanIds ==
    UNION {Range(orchestrator.roots[i].child_span_ids) :
              i \in DOMAIN orchestrator.roots} \cup {"zz"}

OrchestratorMethods ==
    \/ \E s \in StoryIds, x \in SessionIdArgs, t \in RootTraceIdArgs,
          e \in SessionIdEnvs : create_story_generation_root(s, x, t, e)
    \/ \E r \in DOMAIN orchestrator.roots, p \in SpanParents :
           create_beat_span(r, p)
    \/ \E t \in KnownTraceIds, p \in SpanParents :
           create_analysis_span(t, p)
    \/ \E b \in Backends, t \in KnownTraceIds, p \in SpanParents :
           create_agent_flow_span(b, t, p)
    \/ \E t \in KnownTraceIds, p \in SpanParents :
           create_enrichment_span(t, p)
    \/ \E x \in KnownSpanIds, d \in OutputData : update_span_output(x, d)
    \/ \E x \in KnownSpanIds, e \in SpanErrors : mark_span_error(x, e)
    \/ \E h \in HeaderMaps, t \in KnownTraceIds \cup {None},
          p \in ParentSpanIds : inject_correlation_header(h, t, p)
    \/ \E h \in InboundHeaders \cup
                  (IF last.op = "inject_correlation_header"
                   THEN {last.returned} ELSE {}) :
           extract_correlation_header(h)
    \/ \E t \in KnownTraceIds, x \in FinalStories,
          f \in OrchestratorFaults : finalize_story_trace(t, x, f)
    \/ \E f \in FlushFaults : Orchestrator_flush(f)

\* construction, then up to MaxOrchestratorCalls method calls
NextOrchestrator ==
    \/ Orchestrator__init__
    \/ /\ orchestrator.phase = "built"
       /\ orchestrator.calls < MaxOrchestratorCalls
       /\ OrchestratorMethods

SpecOrchestrator == InitOrchestrator /\ [][NextOrchestrator]_vars

\* the same with up to MaxDeepCalls method calls
NextOrchestratorDeep ==
    \/ Orchestrator__init__
    \/ /\ orchestrator.phase = "built"
       /\ orchestrator.calls < MaxDeepCalls
       /\ OrchestratorMethods

SpecOrchestratorDeep == InitOrchestrator /\ [][NextOrchestratorDeep]_vars

\* construction, then up to MaxOrchestratorCalls calls that create roots
\* and record the systems and the traces linked to them
NextCorrelation ==
    \/ Orchestrator__init__
    \/ /\ orchestrator.phase = "built"
       /\ orchestrator.calls < MaxOrchestratorCalls
       /\ \/ \E s \in StoryIds, t \in RootTraceIdArgs :
                 create_story_generation_root(s, None, t, None)
          \/ \E b \in Systems, t \in KnownTraceIds :
                 create_agent_flow_span(b, t, None)
          \/ \E r \in DOMAIN orchestrator.roots, x \in ExternalTraceIds,
                y \in Systems : add_child(r, x, y)
          \/ \E t \in KnownTraceIds, x \in ExternalTraceIds, y \in Systems :
                 link_external_trace(t, x, y)
          \/ \E t \in KnownTraceIds : finalize_story_trace(t, None, "none")

SpecCorrelation == InitOrchestrator /\ [][NextCorrelation]_vars

\* construction, then up to MaxDeepCalls calls that create roots and beat
\* spans, record the outcome of spans and finalize traces
NextSpans ==
    \/ Orchestrator__init__
    \/ /\ orchestrator.phase = "built"
       /\ orchestrator.calls < MaxDeepCalls
       /\ \/ \E t \in RootTraceIdArgs :
                 create_story_generation_root("s1", None, t, None)
          \/ \E r \in DOMAIN orchestrator.roots : create_beat_span(r, None)
          \/ \E x \in KnownSpanIds, d \in OutputData :
                 update_span_output(x, d)
          \/ \E x \in KnownSpanIds, e \in SpanErrors : mark_span_error(x, e)
          \/ \E t \in KnownTraceIds, f \in OrchestratorFaults :
                 finalize_story_trace(t, None, f)

SpecSpans == InitOrchestrator /\ [][NextSpans]_vars

\* -------------------------------------------------- NarrativeTracingHandler
\* Abstractions: narrative.langfuse is the list of calls the handler's
\* Langfuse client and trace handles received (a trace or span call that
\* raises is not listed, a flush is listed whether or not it raises);
\* narrative.ctx is the frame of a trace_story_generation block that was
\* entered and not yet left (one at a time), <<>> when there is none;
\* correlation is <<>> for Python's None and <<c>> for a TraceCorrelation;
\* the correlation_header argument of __init__ is left at its default; of
\* _metrics the four process counters and whether the two timings were
\* written are kept, the quality and alignment figures and
\* character_arc_completion are not;
\* display names, inputs, outputs and metadata of a span are not kept.
NarrativeAttrs ==
    {"story_id", "session_id", "root_trace_id", "enable_semantic_naming",
     "correlation_header", "langfuse", "trace_objects", "span_objects",
     "run_to_span_id", "correlation", "_metrics"}

NarrativeStoryArgs == {None, "s1"}
NarrativeStoryEnvs == {None, "s2"}
NarrativeEvents == {"narrative.gap.identified"}
\* which call on the Langfuse client raises during a logging call
NarrativeFaults == {"none", "trace", "span"}
\* which of the two events logged on leaving the block raises
ExitFaults == {"none", "end", "metrics"}
\* how the body of a trace_story_generation block ends
BodyOutcomes == {NoError} \cup Errors

\* what a method of the handler leaves behind: the object, the uuid4 calls
\* made, the value returned and the error raised
NarrativeResult(n, uuids, value, error) ==
    [n |-> n, uuids |-> uuids, value |-> value, error |-> error]

\* _ensure_root_trace creating the trace whether or not it has a handle
EnsureRootTrace_EveryCall(n, uuids, fail) ==
    LET fresh == n.root_trace_id \in {None, ""}
        trace_id == IF fresh THEN UuidPool[uuids + 1] ELSE n.root_trace_id
        u == IF fresh THEN uuids + 1 ELSE uuids
        n1 == [n EXCEPT !.root_trace_id = trace_id]
    IN  IF fail
        THEN NarrativeResult(n1, u, None, RemoteError)
        ELSE NarrativeResult(
                 [n1 EXCEPT
                     !.langfuse =
                         Append(@, [method |-> "trace", id |-> trace_id,
                                    session_id |-> n.session_id,
                                    story_id |-> n.story_id]),
                     !.trace_objects = Put(@, trace_id, Len(n.langfuse) + 1),
                     !.correlation =
                         <<[root_trace_id |-> trace_id,
                            story_id |-> n.story_id,
                            session_id |-> PyOr(n.session_id, "")]>>],
                 u, trace_id, NoError)

\* _ensure_root_trace; fail: langfuse.trace raises
EnsureRootTrace(n, uuids, fail) ==
    IF n.root_trace_id \notin {None, ""}
       /\ n.root_trace_id \in DOMAIN n.trace_objects
    THEN NarrativeResult(n, uuids, n.root_trace_id, NoError)
    ELSE LET fresh == n.root_trace_id \in {None, ""}
             trace_id == IF fresh THEN UuidPool[uuids + 1]
                         ELSE n.root_trace_id
             u == IF fresh THEN uuids + 1 ELSE uuids
             n1 == [n EXCEPT !.root_trace_id = trace_id]
         IN  IF fail
             THEN NarrativeResult(n1, u, None, RemoteError)
             ELSE NarrativeResult(
                      [n1 EXCEPT
                          !.langfuse =
                              Append(@, [method |-> "trace", id |-> trace_id,
                                         session_id |-> n.session_id,
                                         story_id |-> n.story_id]),
                          !.trace_objects =
                              Put(@, trace_id, Len(n.langfuse) + 1),
                          !.correlation =
                              <<[root_trace_id |-> trace_id,
                                 story_id |-> n.story_id,
                                 session_id |-> PyOr(n.session_id, "")]>>],
                      u, trace_id, NoError)

\* log_event; failTrace: langfuse.trace raises, failSpan: trace.span raises
LogEvent(n, uuids, event_type, parent_span_id, failTrace, failSpan) ==
    LET e == EnsureRootTrace(n, uuids, failTrace)
        span_id == UuidPool[e.uuids + 1]
    IN  IF e.error # NoError THEN e
        ELSE IF failSpan
        THEN NarrativeResult(e.n, e.uuids + 1, None, RemoteError)
        ELSE NarrativeResult(
                 [e.n EXCEPT
                     !.langfuse =
                         Append(@, [method |-> "span",
                                    trace |-> e.n.trace_objects[e.value],
                                    id |-> span_id,
                                    event_type |-> event_type,
                                    parent_observation_id |->
                                        parent_span_id]),
                     !.span_objects = Put(@, span_id, Len(e.n.langfuse) + 1)],
                 e.uuids + 1, span_id, NoError)

\* what every method of the handler leaves alone
NarrativeFrame ==
    UNCHANGED <<default_trace_id, tables, remote, remote_flushes, scenario,
                LANGFUSE_AVAILABLE,
                formatter, threads, langfuse_clients, handler, orchestrator>>

\* one more call made on the handler
NarrativeCalled(n) == [n EXCEPT !.calls = @ + 1]

\* NarrativeMetrics()
NarrativeMetrics ==
    [beats_generated |-> 0, enrichments_applied |-> 0, gaps_remediated |-> 0,
     routing_decisions |-> 0, timed |-> FALSE, averaged |-> FALSE]

\* the attributes __init__ sets, before the root trace is looked at
NewNarrative(story_id, session_id, root_trace_id) ==
    [phase |-> "built", attrs |-> NarrativeAttrs, calls |-> 0,
     story_id |-> story_id, session_id |-> session_id,
     root_trace_id |-> root_trace_id,
     correlation_header |-> TRACE_ID_HEADER,
     trace_objects |-> EmptyDict, span_objects |-> EmptyDict,
     correlation |-> <<>>, metrics |-> NarrativeMetrics,
     ctx |-> <<>>, langfuse |-> <<>>]

\* NarrativeTracingHandler.__init__: ImportError before anything is set
\* when the langfuse import failed; otherwise every attribute, and the root
\* trace when a story id is known
Narrative__init__(story_id, env_story_id, session_id, env_session_id, trace_id, env_trace_id, fault) ==
    LET story == PyOr(story_id,
                      IF env_story_id = None THEN "unknown"
                      ELSE env_story_id)
        n0 == NewNarrative(story, PyOr(session_id, env_session_id),
                           PyOr(trace_id, env_trace_id))
        e == IF story \notin {None, "", "unknown"}
             THEN EnsureRootTrace(n0, uuid_count, fault = "trace")
             ELSE NarrativeResult(n0, uuid_count, None, NoError)
    IN  /\ narrative.phase = "new"
        /\ fault \in {"none", "trace"}
        /\ IF ~LANGFUSE_AVAILABLE
           THEN /\ fault = "none"
                /\ narrative' = [narrative EXCEPT !.phase = "failed"]
                /\ last' = Call("__init__", NoArgs, None, ImportError)
                /\ UNCHANGED <<langfuse_clients, uuid_count>>
           ELSE /\ narrative' =
                       IF e.error # NoError
                       THEN [e.n EXCEPT !.phase = "failed"]
                       ELSE e.n
                /\ langfuse_clients' = langfuse_clients + 1
                /\ uuid_count' = e.uuids
                /\ last' = Call("__init__", NoArgs, None, e.error)
        /\ UNCHANGED <<default_trace_id, tables, remote, remote_flushes,
                       scenario, LANGFUSE_AVAILABLE,
                       formatter, threads, handler, orchestrator>>

\* get_correlation_header with a trace id drawn at every call
get_correlation_header_FreshId(fault) ==
    LET e == EnsureRootTrace(NarrativeCalled(narrative), uuid_count,
                             fault = "trace")
        headers ==
            Put(Put(Put(EmptyDict, narrative.correlation_header,
                        UuidPool[e.uuids + 1]),
                    "X-Story-Id", e.n.story_id),
                "X-Session-Id", PyOr(e.n.session_id, ""))
    IN  /\ narrative.phase = "built"
        /\ fault \in {"none", "trace"}
        /\ fault = "trace" => e.error # NoError
        /\ narrative' = e.n
        /\ uuid_count' = e.uuids + 1
        /\ last' = Call("get_correlation_header", NoArgs,
                        IF e.error # NoError THEN None ELSE headers, e.error)
        /\ NarrativeFrame

\* NarrativeTracingHandler.get_correlation_header; the dict display
\* evaluates _ensure_root_trace() first and a later key replaces an
\* earlier equal one
get_correlation_header(fault) ==
    LET e == EnsureRootTrace(NarrativeCalled(narrative), uuid_count,
                             fault = "trace")
        headers ==
            Put(Put(Put(EmptyDict, narrative.correlation_header, e.value),
                    "X-Story-Id", e.n.story_id),
                "X-Session-Id", PyOr(e.n.session_id, ""))
    IN  /\ narrative.phase = "built"
        /\ fault \in {"none", "trace"}
        /\ fault = "trace" => e.error # NoError
        /\ narrative' = e.n
        /\ uuid_count' = e.uuids
        /\ last' = Call("get_correlation_header", NoArgs,
                        IF e.error # NoError THEN None ELSE headers, e.error)
        /\ NarrativeFrame

\* NarrativeTracingHandler.log_event
log_event(event_type, parent_span_id, fault) ==
    LET r == LogEvent(NarrativeCalled(narrative), uuid_count, event_type,
                      parent_span_id, fault = "trace", fault = "span")
    IN  /\ narrative.phase = "built"
        /\ narrative' = r.n
        /\ uuid_count' = r.uuids
        /\ last' = Call("log_event",
                        [event_type |-> event_type,
                         parent_span_id |-> parent_span_id],
                        r.value, r.error)
        /\ NarrativeFrame

\* NarrativeTracingHandler.log_beat_creation
log_beat_creation(parent_span_id, fault) ==
    LET counted == [NarrativeCalled(narrative) EXCEPT
                       !.metrics.beats_generated = @ + 1]
        r == LogEvent(counted, uuid_count, "narrative.beat.created",
                      parent_span_id, fault = "trace", fault = "span")
    IN  /\ narrative.phase = "built"
        /\ narrative' = r.n
        /\ uuid_count' = r.uuids
        /\ last' = Call("log_beat_creation",
                        [parent_span_id |-> parent_span_id],
                        r.value, r.error)
        /\ NarrativeFrame

\* a logging method: the metrics it has updated in n, then log_event
NarrativeLog(op, args, n, event_type, parent_span_id, fault) ==
    LET r == LogEvent(n, uuid_count, event_type, parent_span_id,
                      fault = "trace", fault = "span")
    IN  /\ narrative.phase = "built"
        /\ narrative' = r.n
        /\ uuid_count' = r.uuids
        /\ last' = Call(op, args, r.value, r.error)
        /\ NarrativeFrame

log_beat_analysis(parent_span_id, fault) ==
    NarrativeLog("log_beat_analysis", [parent_span_id |-> parent_span_id], NarrativeCalled(narrative),
                 "narrative.beat.analyzed", parent_span_id, fault)

\* log_beat_enrichment counting two enrichments
log_beat_enrichment_Twice(parent_span_id, fault) ==
    NarrativeLog("log_beat_enrichment", [parent_span_id |-> parent_span_id],
                 [NarrativeCalled(narrative) EXCEPT
                     !.metrics.enrichments_applied = @ + 2],
                 "narrative.beat.enriched", parent_span_id, fault)

log_beat_enrichment(parent_span_id, fault) ==
    NarrativeLog("log_beat_enrichment", [parent_span_id |-> parent_span_id],
                 [NarrativeCalled(narrative) EXCEPT
                     !.metrics.enrichments_applied = @ + 1],
                 "narrative.beat.enriched", parent_span_id, fault)

log_three_universe_analysis(parent_span_id, fault) ==
    NarrativeLog("log_three_universe_analysis", [parent_span_id |-> parent_span_id], NarrativeCalled(narrative),
                 "narrative.universe.analysis", parent_span_id, fault)

log_character_arc_update(parent_span_id, fault) ==
    NarrativeLog("log_character_arc_update", [parent_span_id |-> parent_span_id], NarrativeCalled(narrative),
                 "narrative.character.arc_updated", parent_span_id, fault)

log_routing_decision(parent_span_id, fault) ==
    NarrativeLog("log_routing_decision", [parent_span_id |-> parent_span_id],
                 [NarrativeCalled(narrative) EXCEPT
                     !.metrics.routing_decisions = @ + 1],
                 "narrative.routing.decision", parent_span_id, fault)

log_checkpoint(parent_span_id, fault) ==
    NarrativeLog("log_checkpoint", [parent_span_id |-> parent_span_id], NarrativeCalled(narrative),
                 "narrative.checkpoint.saved", parent_span_id, fault)

log_episode_boundary(parent_span_id, fault) ==
    NarrativeLog("log_episode_boundary", [parent_span_id |-> parent_span_id], NarrativeCalled(narrative),
                 "narrative.checkpoint.episode_boundary", parent_span_id,
                 fault)

log_gap_identified(parent_span_id, fault) ==
    NarrativeLog("log_gap_identified", [parent_span_id |-> parent_span_id], NarrativeCalled(narrative),
                 "narrative.gap.identified", parent_span_id, fault)

log_gap_remediated(success, parent_span_id, fault) ==
    NarrativeLog("log_gap_remediated",
                 [success |-> success, parent_span_id |-> parent_span_id],
                 IF success
                 THEN [NarrativeCalled(narrative) EXCEPT
                          !.metrics.gaps_remediated = @ + 1]
                 ELSE NarrativeCalled(narrative),
                 "narrative.gap.remediated", parent_span_id, fault)

\* NarrativeTracingHandler.reset_metrics
reset_metrics ==
    /\ narrative.phase = "built"
    /\ narrative' = [NarrativeCalled(narrative) EXCEPT
                        !.metrics = NarrativeMetrics]
    /\ last' = Call("reset_metrics", NoArgs, None, NoError)
    /\ UNCHANGED uuid_count
    /\ NarrativeFrame

\* entering `with handler.trace_story_generation(story_id)`: the code up
\* to the yield
trace_story_generation_enter(story_id, fault) ==
    LET n0 == IF story_id \notin {None, ""}
              THEN [NarrativeCalled(narrative) EXCEPT !.story_id = story_id]
              ELSE NarrativeCalled(narrative)
        t == EnsureRootTrace(n0, uuid_count, fault = "trace")
        r == IF t.error # NoError THEN t
             ELSE LogEvent(t.n, t.uuids, "narrative.story.start", None,
                           FALSE, fault = "span")
    IN  /\ narrative.phase = "built"
        /\ narrative.ctx = <<>>
        /\ narrative' =
               IF r.error # NoError THEN r.n
               ELSE [r.n EXCEPT
                        !.ctx = <<[trace_id |-> t.value,
                                   start_span_id |-> r.value]>>]
        /\ uuid_count' = r.uuids
        /\ last' = Call("trace_story_generation.__enter__",
                        [story_id |-> story_id],
                        IF r.error # NoError THEN None ELSE t.value,
                        r.error)
        /\ NarrativeFrame

\* the finally clause logging the metrics event before the end event
trace_story_generation_exit_MetricsFirst(body_error, fault) ==
    LET timed == [NarrativeCalled(narrative) EXCEPT
                     !.metrics.timed = TRUE,
                     !.metrics.averaged =
                         @ \/ narrative.metrics.beats_generated > 0,
                     !.ctx = <<>>]
        r1 == LogEvent(timed, uuid_count, "narrative.story.metrics", None,
                       FALSE, fault = "metrics")
        r2 == IF r1.error # NoError THEN r1
              ELSE LogEvent(r1.n, r1.uuids, "narrative.story.end",
                            narrative.ctx[1].start_span_id, FALSE,
                            fault = "end")
    IN  /\ narrative.phase = "built"
        /\ narrative.ctx # <<>>
        /\ narrative' = r2.n
        /\ uuid_count' = r2.uuids
        /\ last' = Call("trace_story_generation",
                        [body_error |-> body_error], None,
                        IF r2.error # NoError THEN r2.error ELSE body_error)
        /\ NarrativeFrame

\* leaving the block, the body having returned (NoError) or raised: the
\* finally clause; an error raised in it replaces the body's error
trace_story_generation_exit(body_error, fault) ==
    LET timed == [NarrativeCalled(narrative) EXCEPT
                     !.metrics.timed = TRUE,
                     !.metrics.averaged =
                         @ \/ narrative.metrics.beats_generated > 0,
                     !.ctx = <<>>]
        r1 == LogEvent(timed, uuid_count, "narrative.story.end",
                       narrative.ctx[1].start_span_id, FALSE, fault = "end")
        r2 == IF r1.error # NoError THEN r1
              ELSE LogEvent(r1.n, r1.uuids, "narrative.story.metrics", None,
                            FALSE, fault = "metrics")
    IN  /\ narrative.phase = "built"
        /\ narrative.ctx # <<>>
        /\ narrative' = r2.n
        /\ uuid_count' = r2.uuids
        /\ last' = Call("trace_story_generation",
                        [body_error |-> body_error], None,
                        IF r2.error # NoError THEN r2.error ELSE body_error)
        /\ NarrativeFrame

\* NarrativeTracingHandler.flush
Narrative_flush(fault) ==
    LET called == "langfuse" \in narrative.attrs
        client_error == IF called /\ fault = "flush" THEN RemoteError
                        ELSE NoError
    IN  /\ narrative.phase = "built"
        /\ fault = "flush" => called
        /\ narrative' =
               IF called
               THEN [NarrativeCalled(narrative) EXCEPT
                        !.langfuse = Append(@, [method |-> "flush"])]
               ELSE NarrativeCalled(narrative)
        /\ last' = Call("flush", [client_error |-> client_error], None,
                        client_error)
        /\ UNCHANGED uuid_count
        /\ NarrativeFrame

\* NarrativeTracingHandler.__del__, also run for an object whose __init__
\* raised: self.flush() inside try / except Exception
Narrative__del__(fault) ==
    LET called == "langfuse" \in narrative.attrs
        inner == IF called /\ fault = "flush" THEN RemoteError ELSE NoError
    IN  /\ narrative.phase \in {"built", "failed"}
        /\ fault = "flush" => called
        /\ narrative' =
               IF called
               THEN [narrative EXCEPT
                        !.phase = "deleted",
                        !.langfuse = Append(@, [method |-> "flush"])]
               ELSE [narrative EXCEPT !.phase = "deleted"]
        /\ last' = Call("__del__", [inner |-> inner], None,
                        ExceptException(inner))
        /\ UNCHANGED uuid_count
        /\ NarrativeFrame

\* the program about to construct a NarrativeTracingHandler
InitNarrative ==
    /\ LANGFUSE_AVAILABLE \in BOOLEAN
    /\ formatter = Absent
    /\ threads = NoThreads
    /\ langfuse_clients = 0
    /\ narrative = [phase |-> "new", attrs |-> {}]
    /\ handler = Absent
    /\ orchestrator = Absent
    /\ default_trace_id = None
    /\ NothingProcessed
    /\ last = Call("new", NoArgs, None, NoError)

NarrativeMethods ==
    \/ \E e \in NarrativeEvents, f \in NarrativeFaults :
           log_event(e, None, f)
    \/ \E f \in NarrativeFaults : log_beat_creation(None, f)
    \/ \E s \in NarrativeStoryArgs, f \in NarrativeFaults :
           trace_story_generation_enter(s, f)
    \/ \E b \in BodyOutcomes, f \in ExitFaults :
           trace_story_generation_exit(b, f)
    \/ \E f \in FlushFaults : Narrative_flush(f)

\* construction, up to MaxNarrativeCalls method calls, teardown
NextNarrative ==
    \/ \E s \in NarrativeStoryArgs, es \in NarrativeStoryEnvs,
          x \in SessionIdArgs, ex \in SessionIdEnvs,
          t \in TraceIdArgs, et \in TraceIdEnvs, f \in NarrativeFaults :
           Narrative__init__(s, es, x, ex, t, et, f)
    \/ /\ narrative.phase = "built"
       /\ narrative.calls < MaxNarrativeCalls
       /\ NarrativeMethods
    \/ \E f \in FlushFaults : Narrative__del__(f)

SpecNarrative == InitNarrative /\ [][NextNarrative]_vars

\* the same with the correlation header asked for between the calls
NextNarrativeHeaders ==
    \/ NextNarrative
    \/ /\ narrative.phase = "built"
       /\ narrative.calls < MaxNarrativeCalls
       /\ \E f \in {"none", "trace"} : get_correlation_header(f)

SpecNarrativeHeaders == InitNarrative /\ [][NextNarrativeHeaders]_vars

\* a NarrativeTracingHandler after __init__ returned, constructed with no
\* argument and no environment variable set
InitNarrativeBuilt ==
    /\ LANGFUSE_AVAILABLE = TRUE
    /\ formatter = Absent
    /\ threads = NoThreads
    /\ langfuse_clients = 1
    /\ narrative = NewNarrative("unknown", None, None)
    /\ handler = Absent
    /\ orchestrator = Absent
    /\ default_trace_id = None
    /\ NothingProcessed
    /\ last = Call("__init__", NoArgs, None, NoError)

\* the logging methods and reset_metrics, up to MaxNarrativeCalls calls
NextNarrativeMetrics ==
    /\ narrative.calls < MaxNarrativeCalls
    /\ \/ \E f \in NarrativeFaults : log_beat_creation(None, f)
       \/ \E f \in NarrativeFaults : log_beat_analysis(None, f)
       \/ \E f \in NarrativeFaults : log_beat_enrichment(None, f)
       \/ \E f \in NarrativeFaults : log_three_universe_analysis(None, f)
       \/ \E f \in NarrativeFaults : log_character_arc_update(None, f)
       \/ \E f \in NarrativeFaults : log_routing_decision(None, f)
       \/ \E f \in NarrativeFaults : log_checkpoint(None, f)
       \/ \E f \in NarrativeFaults : log_episode_boundary(None, f)
       \/ \E f \in NarrativeFaults : log_gap_identified(None, f)
       \/ \E x \in BOOLEAN, f \in NarrativeFaults :
              log_gap_remediated(x, None, f)
       \/ reset_metrics

SpecNarrativeMetrics == InitNarrativeBuilt /\ [][NextNarrativeMetrics]_vars

\* ------------------------------------------- one object of any of the classes
InitStack == InitLifecycle \/ InitNarrative \/ InitOrchestrator

NextStack == NextLifecycle \/ NextNarrative \/ NextOrchestrator

SpecStack == InitStack /\ [][NextStack]_vars

\* ------------------------------------------- start callbacks on threads
\* on_chain_start(serialized, inputs, run_id=t) with no parent, running on
\* a thread of its own for each run t, one statement of the handler at a
\* step. The locals of a thread: trace_id, missing (what the test of line
\* 111 found), trace (the handle langfuse.trace returned), trace_obj (the
\* handle read at line 315) and span.
NewThread ==
    [pc |-> "known", trace_id |-> None, missing |-> FALSE, trace |-> 0,
     trace_obj |-> 0, span |-> 0]

\* thread t moves to statement pc with its locals as in locals
Goto(t, pc, locals) ==
    threads' = [threads EXCEPT ![t] = [locals EXCEPT !.pc = pc]]

ThreadFrame ==
    UNCHANGED <<default_trace_id, scenario, remote_flushes,
                LANGFUSE_AVAILABLE, langfuse_clients, handler, formatter,
                narrative, orchestrator>>

\* lines 95-96: if run_id_str in self.run_to_trace_id: return it
ThreadCheckKnown(t) ==
    LET th == threads[t]
    IN  /\ th.pc = "known"
        /\ IF RunStr(t) \in DOMAIN run_to_trace_id
           THEN Goto(t, "lookup",
                     [th EXCEPT !.trace_id = run_to_trace_id[RunStr(t)]])
           ELSE Goto(t, "parent", th)
        /\ UNCHANGED <<tables, uuid_count, remote, last>>
        /\ ThreadFrame

\* line 99: if parent_run_id, which is None
ThreadCheckParent(t) ==
    /\ threads[t].pc = "parent"
    /\ Goto(t, "pick", threads[t])
    /\ UNCHANGED <<tables, uuid_count, remote, last>>
    /\ ThreadFrame

\* line 107: trace_id = self.default_trace_id or str(uuid.uuid4())
ThreadPickTraceId(t) ==
    LET th == threads[t]
        synthesized == default_trace_id \in {None, ""}
    IN  /\ th.pc = "pick"
        /\ Goto(t, "register",
                [th EXCEPT !.trace_id =
                    PyOr(default_trace_id, UuidPool[uuid_count + 1])])
        /\ uuid_count' = IF synthesized THEN uuid_count + 1 ELSE uuid_count
        /\ UNCHANGED <<tables, remote, last>>
        /\ ThreadFrame

\* line 108: self.run_to_trace_id[run_id_str] = trace_id
ThreadRegisterRun(t) ==
    /\ threads[t].pc = "register"
    /\ Goto(t, "stored", threads[t])
    /\ run_to_trace_id' = Put(run_to_trace_id, RunStr(t), threads[t].trace_id)
    /\ UNCHANGED <<run_to_observation_id, trace_objects, observation_objects,
                   uuid_count, remote, last>>
    /\ ThreadFrame

\* line 111: if trace_id not in self.trace_objects
ThreadCheckStored(t) ==
    LET th == threads[t]
        missing == th.trace_id \notin DOMAIN trace_objects
    IN  /\ th.pc = "stored"
        /\ Goto(t, IF missing THEN "create" ELSE "lookup",
                [th EXCEPT !.missing = missing])
        /\ UNCHANGED <<tables, uuid_count, remote, last>>
        /\ ThreadFrame

\* lines 112-116 made to look at trace_objects once more before creating
ThreadCreateTrace_Recheck(t) ==
    LET th == threads[t]
    IN  /\ th.pc = "create"
        /\ IF th.trace_id \in DOMAIN trace_objects
           THEN /\ Goto(t, "lookup", th)
                /\ UNCHANGED remote_traces
           ELSE /\ Goto(t, "store",
                        [th EXCEPT !.trace = Len(remote_traces) + 1])
                /\ remote_traces' = Append(remote_traces, th.trace_id)
        /\ UNCHANGED <<tables, uuid_count, remote_spans, last>>
        /\ ThreadFrame

\* lines 112-116: trace = self.langfuse.trace(id=trace_id, ...)
ThreadCreateTrace(t) ==
    LET th == threads[t]
    IN  /\ th.pc = "create"
        /\ Goto(t, "store", [th EXCEPT !.trace = Len(remote_traces) + 1])
        /\ remote_traces' = Append(remote_traces, th.trace_id)
        /\ UNCHANGED <<tables, uuid_count, remote_spans, last>>
        /\ ThreadFrame

\* line 117: self.trace_objects[trace_id] = trace
ThreadStoreTrace(t) ==
    /\ threads[t].pc = "store"
    /\ Goto(t, "lookup", threads[t])
    /\ trace_objects' =
           Put(trace_objects, threads[t].trace_id, threads[t].trace)
    /\ UNCHANGED <<run_to_trace_id, run_to_observation_id,
                   observation_objects, uuid_count, remote, last>>
    /\ ThreadFrame

\* lines 119 and 314-315: return trace_id; trace = self.trace_objects[..]
ThreadLookupTrace(t) ==
    LET th == threads[t]
    IN  /\ th.pc = "lookup"
        /\ th.trace_id \in DOMAIN trace_objects
        /\ Goto(t, "span", [th EXCEPT !.trace_obj = trace_objects[th.trace_id]])
        /\ UNCHANGED <<tables, uuid_count, remote, last>>
        /\ ThreadFrame

\* lines 317-334: the display name and span = trace.span(...)
ThreadCreateSpan(t) ==
    LET th == threads[t]
    IN  /\ th.pc = "span"
        /\ \E serialized \in PlainSerialized :
               remote_spans' =
                   Append(remote_spans,
                          Observation(remote_traces[th.trace_obj], RunStr(t),
                                      AddGlyph(ChainName(serialized), "chain"),
                                      GetParentId(run_to_observation_id,
                                                  NoRun)))
        /\ Goto(t, "map", [th EXCEPT !.span = Len(remote_spans) + 1])
        /\ UNCHANGED <<tables, uuid_count, remote_traces, last>>
        /\ ThreadFrame

\* line 336: self.run_to_observation_id[str(run_id)] = str(run_id)
ThreadMapObservation(t) ==
    /\ threads[t].pc = "map"
    /\ Goto(t, "keep", threads[t])
    /\ run_to_observation_id' =
           Put(run_to_observation_id, RunStr(t), RunStr(t))
    /\ UNCHANGED <<run_to_trace_id, trace_objects, observation_objects,
                   uuid_count, remote, last>>
    /\ ThreadFrame

\* line 337: self.observation_objects[str(run_id)] = span, and the return
ThreadStoreObservation(t) ==
    /\ threads[t].pc = "keep"
    /\ Goto(t, "done", threads[t])
    /\ observation_objects' =
           Put(observation_objects, RunStr(t), threads[t].span)
    /\ last' = Event("start", t, NoRun, NoError, FALSE)
    /\ UNCHANGED <<run_to_trace_id, run_to_observation_id, trace_objects,
                   uuid_count, remote>>
    /\ ThreadFrame

\* a built handler and one thread for each run, each about to execute the
\* first statement of _get_or_create_trace
InitThreads ==
    /\ \E arg \in TraceIdArgs, env \in TraceIdEnvs :
           default_trace_id = PyOr(arg, env)
    /\ NothingProcessed
    /\ last = Event("init", NoRun, NoRun, NoError, FALSE)
    /\ LANGFUSE_AVAILABLE = TRUE
    /\ langfuse_clients = 1
    /\ handler = [phase |-> "built", attrs |-> HandlerAttrs,
                  flush_on_exit |-> TRUE]
    /\ formatter = Absent
    /\ narrative = Absent
    /\ orchestrator = Absent
    /\ threads = [t \in Runs |-> NewThread]

\* any thread executes its next statement
NextThreads ==
    \E t \in Runs :
        \/ ThreadCheckKnown(t)
        \/ ThreadCheckParent(t)
        \/ ThreadPickTraceId(t)
        \/ ThreadRegisterRun(t)
        \/ ThreadCheckStored(t)
        \/ ThreadCreateTrace(t)
        \/ ThreadStoreTrace(t)
        \/ ThreadLookupTrace(t)
        \/ ThreadCreateSpan(t)
        \/ ThreadMapObservation(t)
        \/ ThreadStoreObservation(t)

SpecThreads == InitThreads /\ [][NextThreads]_vars

\* -------------------------------------------------- NarrativeTraceFormatter
\* Scores are kept in tenths (0.6 is 6), times in milliseconds.
CharacterIds == {"ava", "mia"}
\* character_arc_completion in insertion order: <<char_id, completion>> pairs
ArcCompletions ==
    {<<>>}
        \cup {<<<<c, v>>>> : c \in CharacterIds, v \in {5, 6}}
        \cup {p \in {<<<<c, v>>, <<d, w>>>> :
                        c \in CharacterIds, d \in CharacterIds,
                        v \in {5, 6}, w \in {5, 6}} : p[1][1] # p[2][1]}

\* the NarrativeMetrics a caller can hand to the formatter
MetricInputs ==
    [coherence_score : {5, 6},
     emotional_arc_strength : {4, 5},
     theme_clarity : {5, 6},
     cross_universe_coherence : {4, 5},
     enrichments_applied : 0..MaxBeats,
     beats_generated : 0..MaxBeats,
     character_arc_completion : ArcCompletions,
     average_beat_time_ms : {5000, 5001}]

RECURSIVE Join(_, _)
\* sep.join(names)
Join(names, sep) ==
    IF names = <<>> THEN ""
    ELSE IF Len(names) = 1 THEN names[1]
    ELSE names[1] \o sep \o Join(Tail(names), sep)

RECURSIVE IncompleteArcs(_)
\* [char_id for char_id, completion in items if completion < 0.6]
IncompleteArcs(items) ==
    IF items = <<>> THEN <<>>
    ELSE (IF items[1][2] < 6 THEN <<items[1][1]>> ELSE <<>>)
             \o IncompleteArcs(Tail(items))

LowCoherence == "<magnifier> Low coherence detected."
WeakEmotionalArc == "<heartbeat> Emotional arc is weak."
UnclearThemes == "<palette> Themes are unclear."
LowAlignment == "<milky way> Three-universe alignment is low."
FewEnriched == "<sparkles> Few beats were enriched."
IncompleteArcsPrefix == "<masks> Characters with incomplete arcs: "
SlowBeats == "<lightning> Beat generation is slow."
Healthy == "<check> Narrative metrics look healthy!"

\* the list appended to when the condition holds
AppendIf(suggestions, condition, message) ==
    IF condition THEN Append(suggestions, message) ELSE suggestions

\* the suggestions list as it is before the closing "if not suggestions"
TriggeredSuggestions(metrics) ==
    LET s1 == AppendIf(<<>>, metrics.coherence_score < 6, LowCoherence)
        s2 == AppendIf(s1, metrics.emotional_arc_strength < 5,
                       WeakEmotionalArc)
        s3 == AppendIf(s2, metrics.theme_clarity < 6, UnclearThemes)
        s4 == AppendIf(s3, metrics.cross_universe_coherence < 5,
                       LowAlignment)
        s5 == AppendIf(s4,
                       10 * metrics.enrichments_applied
                           < 3 * metrics.beats_generated,
                       FewEnriched)
        incomplete_arcs == IncompleteArcs(metrics.character_arc_completion)
        s6 == AppendIf(s5, incomplete_arcs # <<>>,
                       IncompleteArcsPrefix \o Join(incomplete_arcs, ", ")
                           \o ".")
    IN  AppendIf(s6, metrics.average_beat_time_ms > 5000, SlowBeats)

\* generate_improvement_suggestions without the closing healthy message
Suggestions_NoFallback(metrics) == TriggeredSuggestions(metrics)

\* the value generate_improvement_suggestions returns
Suggestions(metrics) ==
    LET suggestions == TriggeredSuggestions(metrics)
    IN  AppendIf(suggestions, suggestions = <<>>, Healthy)

FormatterFrame ==
    UNCHANGED <<default_trace_id, tables, remote, remote_flushes, scenario,
                uuid_count, LANGFUSE_AVAILABLE, langfuse_clients, handler,
                narrative, orchestrator, threads>>

\* NarrativeTraceFormatter.generate_improvement_suggestions(metrics)
generate_improvement_suggestions ==
    /\ formatter.phase = "built"
    /\ formatter' = [formatter EXCEPT
                         !.phase = "called",
                         !.suggestions = Suggestions(formatter.metrics)]
    /\ last' = Call("generate_improvement_suggestions", NoArgs,
                    Suggestions(formatter.metrics), NoError)
    /\ FormatterFrame

\* a formatter and the metrics its caller holds
InitFormatter ==
    /\ LANGFUSE_AVAILABLE = TRUE
    /\ langfuse_clients = 0
    /\ \E m \in MetricInputs :
           formatter = [phase |-> "built", metrics |-> m,
                        suggestions |-> <<>>]
    /\ threads = NoThreads
    /\ handler = Absent
    /\ narrative = Absent
    /\ orchestrator = Absent
    /\ default_trace_id = None
    /\ NothingProcessed
    /\ last = Call("new", NoArgs, None, NoError)

NextFormatter == generate_improvement_suggestions

SpecFormatter == InitFormatter /\ [][NextFormatter]_vars

\* ------------------------------------------------------------------ claims
Known(run) == RunStr(run) \in DOMAIN run_to_trace_id
TraceOf(run) == run_to_trace_id[RunStr(run)]
HasSpan(run) ==
    /\ RunStr(run) \in DOMAIN run_to_observation_id
    /\ run_to_observation_id[RunStr(run)] \in DOMAIN observation_objects
\* the record of the handle an end or error event of the run acts on
SpanOf(run) ==
    remote_spans[observation_objects[run_to_observation_id[RunStr(run)]]]
\* the same after the step
KnownAfter(run) == RunStr(run) \in DOMAIN run_to_trace_id'
TraceAfter(run) == run_to_trace_id'[RunStr(run)]
SpanAfter(run) ==
    remote_spans'[observation_objects'[run_to_observation_id'[RunStr(run)]]]
Configured == default_trace_id \notin {None, ""}
\* the trace.span / trace.generation calls made for the run
SpansOfRun(run) ==
    {i \in DOMAIN remote_spans : remote_spans[i].id = RunStr(run)}

\* C1 (as stated): after a start event for run B that carries parent run A,
\* with a start event of A processed earlier, run_to_trace_id holds the same
\* trace id for B and for A.
C1_Original ==
    (/\ last.op = "start"
     /\ last.parent # NoRun
     /\ Known(last.parent))
        => TraceOf(last.run) = TraceOf(last.parent)

\* C1 (amended): a start event for run B that carries parent run A, processed
\* when A has a trace recorded and B has none yet, records A's trace id for B.
C1_FirstStartInheritsParentTrace ==
    [][(/\ last'.op = "start"
        /\ last'.parent # NoRun
        /\ Known(last'.parent)
        /\ ~Known(last'.run))
           => /\ KnownAfter(last'.run)
              /\ TraceAfter(last'.run) = TraceOf(last'.parent)
              /\ TraceAfter(last'.parent) = TraceOf(last'.parent)]_vars

C1_Witness ==
    /\ last.op = "start"
    /\ last.parent # NoRun
    /\ last.parent # last.run
    /\ Known(last.parent)
    /\ Cardinality(SpansOfRun(last.run)) = 1
    /\ ~Configured
    /\ SpanOf(last.run).parent_observation_id = RunStr(last.parent)
    /\ TraceOf(last.run) = TraceOf(last.parent)

\* C2: every span created with a parent observation id was created under the
\* trace recorded for the parent run.
C2_ParentInSameTrace ==
    \A i \in DOMAIN remote_spans :
        remote_spans[i].parent_observation_id # None
            => remote_spans[i].trace_id =
                   run_to_trace_id[remote_spans[i].parent_observation_id]

\* C3: an end event for a run whose span an end event has already closed
\* forwards nothing to the client.
C3_SecondEndIsNoOp ==
    [][(/\ last'.op = "end"
        /\ HasSpan(last'.run)
        /\ SpanOf(last'.run).ends >= 1
        /\ SpanOf(last'.run).level # "ERROR")
           => remote_spans' = remote_spans]_vars

\* C4: a span closed by an end event is not closed again by a later error
\* event, and a span closed by an error event is not closed again by a later
\* end event.
C4_ClosedIsTerminal ==
    [][(/\ HasSpan(last'.run)
        /\ SpanOf(last'.run).ends >= 1
        /\ \/ last'.op = "error" /\ SpanOf(last'.run).level # "ERROR"
           \/ last'.op = "end" /\ SpanOf(last'.run).level = "ERROR")
           => remote_spans' = remote_spans]_vars

\* C5: an end or error event for a run that never had a start event changes
\* no handler table, makes no call on the client and does not raise.
C5_UnknownRunIsNoOp ==
    [][(/\ last'.op \in {"end", "error"}
        /\ ~Known(last'.run))
           => /\ tables' = tables
              /\ remote' = remote
              /\ uuid_count' = uuid_count
              /\ ~last'.raised]_vars

C5_Witness ==
    /\ last.op \in {"end", "error"}
    /\ ~Known(last.run)
    /\ ~last.raised
    /\ \E r \in Runs : HasSpan(r) /\ SpanOf(r).ends = 0

\* C6: an error event for a run whose span is open closes that span once,
\* with level ERROR, the status message str(error) and the output
\* {error: str(error), error_type: type(error).__name__}.
C6_ErrorClosure ==
    [][(/\ last'.op = "error"
        /\ HasSpan(last'.run)
        /\ SpanOf(last'.run).ends = 0)
           => /\ SpanAfter(last'.run).ends = 1
              /\ SpanAfter(last'.run).level = "ERROR"
              /\ SpanAfter(last'.run).status_message = PyStr(last'.error)
              /\ SpanAfter(last'.run).output =
                     [error |-> PyStr(last'.error),
                      error_type |-> TypeName(last'.error)]]_vars

C6_Witness ==
    /\ last.op = "error"
    /\ last.error.type = "KeyError"
    /\ HasSpan(last.run)
    /\ SpanOf(last.run).ends = 1
    /\ SpanOf(last.run).level = "ERROR"
    /\ SpanOf(last.run).status_message = "'boom'"

\* C7: after start(A, no parent), start(B, parent A), end(B), end(A) on a
\* fresh handler one trace was created, both spans were created under it,
\* span B has span A as parent observation and each span received one end
\* call, without an error level.
C7_Scenario ==
    scenario = "done"
        => /\ Len(remote_traces) = 1
           /\ Len(remote_spans) = 2
           /\ remote_spans[1].trace_id = remote_traces[1]
           /\ remote_spans[2].trace_id = remote_traces[1]
           /\ remote_spans[1].parent_observation_id = None
           /\ remote_spans[2].parent_observation_id = remote_spans[1].id
           /\ remote_spans[1].id # remote_spans[2].id
           /\ \A i \in {1, 2} : /\ remote_spans[i].ends = 1
                                /\ remote_spans[i].level = None

C7_Witness ==
    /\ scenario = "done"
    /\ ~Configured
    /\ remote_spans[2].parent_observation_id = remote_spans[1].id

\* C8 (as stated), for two start events processed one after the other:
\* without a default trace id, two start events for two different runs that
\* each carry no parent resolve to different trace ids.
C8_Original ==
    [][(/\ ~Configured
        /\ last.op = "start" /\ last.parent = NoRun
        /\ last'.op = "start" /\ last'.parent = NoRun
        /\ last'.run # last.run)
           => TraceAfter(last'.run) # TraceOf(last.run)]_vars

\* the first start event of the run created a span without parent
\* observation: it carried no parent, or a parent that had no start event
FirstStartParentless(r) ==
    /\ \E i \in DOMAIN remote_spans : remote_spans[i].id = r
    /\ LET first == CHOOSE i \in DOMAIN remote_spans :
                        /\ remote_spans[i].id = r
                        /\ \A j \in 1..(i - 1) : remote_spans[j].id # r
       IN  remote_spans[first].parent_observation_id = None

\* C8 (amended): without a default trace id, two different runs whose first
\* start event carried no parent have different trace ids, each with its own
\* trace created in Langfuse.
C8_FirstParentlessStartsDistinct ==
    ~Configured
        => \A x, y \in {r \in DOMAIN run_to_trace_id : FirstStartParentless(r)} :
               x # y
                   => /\ run_to_trace_id[x] # run_to_trace_id[y]
                      /\ run_to_trace_id[x] \in DOMAIN trace_objects
                      /\ run_to_trace_id[y] \in DOMAIN trace_objects
                      /\ trace_objects[run_to_trace_id[x]] #
                             trace_objects[run_to_trace_id[y]]
                      /\ remote_traces[trace_objects[run_to_trace_id[x]]] =
                             run_to_trace_id[x]

C8_Witness ==
    /\ ~Configured
    /\ last.op = "start" /\ last.parent = NoRun
    /\ Cardinality(SpansOfRun(last.run)) = 1
    /\ \E y \in DOMAIN run_to_trace_id :
           /\ y # RunStr(last.run)
           /\ FirstStartParentless(y)
           /\ run_to_trace_id[y] # TraceOf(last.run)
    /\ Len(remote_traces) = 2

\* C9: a start event for a run that already has a trace recorded, whatever
\* its parent, leaves run_to_trace_id and the stored trace handles unchanged
\* and creates no trace in Langfuse; the span it creates is under the trace
\* recorded for the run.
C9_ResolutionIdempotent ==
    [][(/\ last'.op = "start"
        /\ Known(last'.run))
           => /\ run_to_trace_id' = run_to_trace_id
              /\ trace_objects' = trace_objects
              /\ remote_traces' = remote_traces
              /\ uuid_count' = uuid_count
              /\ ~last'.raised
                     => SpanAfter(last'.run).trace_id = TraceOf(last'.run)]_vars

C9_Witness ==
    /\ last.op = "start"
    /\ last.parent # NoRun
    /\ Known(last.parent)
    /\ Cardinality(SpansOfRun(last.run)) = 2
    /\ TraceOf(last.run) # TraceOf(last.parent)

\* C10: with a default trace id every run's trace id is the default; without
\* one, a start event for a run that has no trace yet and whose parent is
\* absent or has no trace records an id that no run, stored trace or Langfuse
\* trace had before.
C10_DefaultOrFresh ==
    [][/\ Configured
           => \A r \in DOMAIN run_to_trace_id' :
                  run_to_trace_id'[r] = default_trace_id
       /\ (/\ ~Configured
           /\ last'.op = "start"
           /\ ~Known(last'.run)
           /\ ParentTraceId(last'.parent) = None)
              => /\ KnownAfter(last'.run)
                 /\ TraceAfter(last'.run) \notin Range(run_to_trace_id)
                 /\ TraceAfter(last'.run) \notin DOMAIN trace_objects
                 /\ \A i \in DOMAIN remote_traces :
                        remote_traces[i] # TraceAfter(last'.run)]_vars

C10_WitnessDefault ==
    /\ Configured
    /\ Cardinality(DOMAIN run_to_trace_id) = 2
    /\ \E i \in DOMAIN remote_spans :
           remote_spans[i].parent_observation_id # None

\* C11: no operation of the handler removes a key of run_to_trace_id or of
\* run_to_observation_id; after an end or error event for a run the entries
\* of that run are still there.
C11_MapsOnlyGrow ==
    [][/\ DOMAIN run_to_trace_id \subseteq DOMAIN run_to_trace_id'
       /\ DOMAIN run_to_observation_id \subseteq DOMAIN run_to_observation_id'
       /\ (last'.op \in {"end", "error"} /\ Known(last'.run))
              => KnownAfter(last'.run)
       /\ (last'.op \in {"end", "error"} /\ HasSpan(last'.run))
              => RunStr(last'.run) \in DOMAIN run_to_observation_id']_vars

C11_Witness ==
    /\ last.op \in {"end", "error"}
    /\ remote_flushes >= 1
    /\ Known(last.run)
    /\ HasSpan(last.run)
    /\ SpanOf(last.run).ends = 1

\* the step is an end or error event of the run the span i was created for
OwnClosure(i) ==
    IF last'.op \in {"end", "error"}
    THEN RunStr(last'.run) = remote_spans[i].id
    ELSE FALSE

\* C12: only an end or error event of a span's own run acts on the span:
\* every other operation (events of other runs, starts, flush, teardown)
\* leaves the span as it was, so a span that is open stays open.
C12_OnlyOwnRunCloses ==
    [][\A i \in DOMAIN remote_spans :
           ~OwnClosure(i)
               => /\ i \in DOMAIN remote_spans'
                  /\ remote_spans'[i] = remote_spans[i]]_vars

\* a child's end event processed, the parent's span still open
C12_Witness ==
    /\ last.op \in {"end", "error"}
    /\ HasSpan(last.run)
    /\ SpanOf(last.run).ends = 1
    /\ SpanOf(last.run).parent_observation_id # None
    /\ \E i \in DOMAIN remote_spans :
           /\ remote_spans[i].id = SpanOf(last.run).parent_observation_id
           /\ remote_spans[i].id # RunStr(last.run)
           /\ remote_spans[i].trace_id = SpanOf(last.run).trace_id
           /\ remote_spans[i].ends = 0

\* the RootTrace active for the trace id
ActiveRoot(trace_id) ==
    orchestrator.roots[orchestrator.active_traces[trace_id]]

\* C13, the orchestrator's part: update_span_output and mark_span_error for
\* a tracked span send one closure of that span to the Langfuse client.
C13_OrchestratorClosureForwarded ==
    [][(/\ last'.op \in {"update_span_output", "mark_span_error"}
        /\ last'.args.span_id \in DOMAIN orchestrator.spans)
           => /\ Len(orchestrator'.langfuse) = Len(orchestrator.langfuse) + 1
              /\ orchestrator'.langfuse[Len(orchestrator'.langfuse)].method
                     \in {"end", "update"}]_vars

\* C18 (as stated): inject_correlation_header for an active trace returns a
\* map with the trace id, the story id and session id of the trace's root,
\* and the parent-span header exactly when a parent span id was passed.
C18_Original ==
    (/\ last.op = "inject_correlation_header"
     /\ last.args.trace_id \in DOMAIN orchestrator.active_traces)
        => LET h == last.returned
               root == ActiveRoot(last.args.trace_id)
               p == last.args.parent_span_id
           IN  /\ {TRACE_ID_HEADER, STORY_ID_HEADER, SESSION_ID_HEADER}
                      \subseteq DOMAIN h
               /\ h[TRACE_ID_HEADER] = last.args.trace_id
               /\ h[STORY_ID_HEADER] = root.story_id
               /\ h[SESSION_ID_HEADER] = root.session_id
               /\ PARENT_SPAN_HEADER \in DOMAIN h <=> p # None
               /\ p # None => h[PARENT_SPAN_HEADER] = p

\* C18 (amended): the same, the parent-span header carrying the parent span
\* id when a non-empty one was passed and otherwise being what the map
\* handed in held (absent when it held none); every other header of the map
\* handed in is kept.
C18_InjectedHeaders ==
    (/\ last.op = "inject_correlation_header"
     /\ last.args.trace_id \in DOMAIN orchestrator.active_traces)
        => LET h == last.returned
               given == last.args.headers
               root == ActiveRoot(last.args.trace_id)
               p == last.args.parent_span_id
           IN  /\ {TRACE_ID_HEADER, STORY_ID_HEADER, SESSION_ID_HEADER}
                      \subseteq DOMAIN h
               /\ h[TRACE_ID_HEADER] = last.args.trace_id
               /\ h[STORY_ID_HEADER] = root.story_id
               /\ h[SESSION_ID_HEADER] = root.session_id
               /\ p \notin {None, ""}
                      => /\ PARENT_SPAN_HEADER \in DOMAIN h
                         /\ h[PARENT_SPAN_HEADER] = p
               /\ p \in {None, ""}
                      => /\ PARENT_SPAN_HEADER \in DOMAIN h
                                <=> PARENT_SPAN_HEADER \in DOMAIN given
                         /\ PARENT_SPAN_HEADER \in DOMAIN given
                                => h[PARENT_SPAN_HEADER] =
                                       given[PARENT_SPAN_HEADER]
               /\ DOMAIN h =
                      DOMAIN given \cup
                          {TRACE_ID_HEADER, STORY_ID_HEADER, SESSION_ID_HEADER}
                          \cup (IF p \notin {None, ""}
                                THEN {PARENT_SPAN_HEADER} ELSE {})

\* the second of two roots injected with a parent span id
C18_Witness ==
    /\ last.op = "inject_correlation_header"
    /\ last.args.trace_id \in DOMAIN orchestrator.active_traces
    /\ orchestrator.active_traces[last.args.trace_id] = 2
    /\ orchestrator.roots[1].story_id # orchestrator.roots[2].story_id
    /\ last.args.parent_span_id = "p1"
    /\ last.returned[PARENT_SPAN_HEADER] = "p1"
    /\ last.returned[STORY_ID_HEADER] = orchestrator.roots[2].story_id

\* extract_correlation_header returns, for each of the four headers, its
\* value in the map or None when the map does not hold it
ExtractsFields ==
    last'.op = "extract_correlation_header"
        => /\ last'.returned[1] = Get(last'.args.headers, TRACE_ID_HEADER)
           /\ last'.returned[2] = Get(last'.args.headers, STORY_ID_HEADER)
           /\ last'.returned[3] = Get(last'.args.headers, SESSION_ID_HEADER)
           /\ last'.returned[4] = Get(last'.args.headers, PARENT_SPAN_HEADER)

\* extract_correlation_header called on the map that the call before,
\* inject_correlation_header({}, t, p) for an active trace t, returned
RoundTrip ==
    /\ last.op = "inject_correlation_header"
    /\ last.args.headers = EmptyDict
    /\ last.args.trace_id \in DOMAIN orchestrator.active_traces
    /\ last'.op = "extract_correlation_header"
    /\ last'.args.headers = last.returned

\* C19 (as stated): extract(inject({}, t, p)) = (t, story id of t, session id
\* of t, p) for every active trace t and optional parent span id p, and
\* extraction returns each header's value, None for an absent header.
C19_Original ==
    [][/\ RoundTrip
           => last'.returned =
                  <<last.args.trace_id,
                    ActiveRoot(last.args.trace_id).story_id,
                    ActiveRoot(last.args.trace_id).session_id,
                    last.args.parent_span_id>>
       /\ ExtractsFields]_vars

\* C19 (amended): the same for a parent span id that is None or not empty.
C19_RoundTrip ==
    [][/\ (RoundTrip /\ last.args.parent_span_id # "")
           => last'.returned =
                  <<last.args.trace_id,
                    ActiveRoot(last.args.trace_id).story_id,
                    ActiveRoot(last.args.trace_id).session_id,
                    last.args.parent_span_id>>
       /\ ExtractsFields]_vars

C19_Witness ==
    /\ last.op = "extract_correlation_header"
    /\ last.returned[1] \in DOMAIN orchestrator.active_traces
    /\ last.returned[2] = ActiveRoot(last.returned[1]).story_id
    /\ last.returned[3] = ActiveRoot(last.returned[1]).session_id
    /\ last.returned[3] \notin {"S", "E"}
    /\ last.returned[4] = "p1"
    /\ DOMAIN last.args.headers =
           {TRACE_ID_HEADER, STORY_ID_HEADER, SESSION_ID_HEADER,
            PARENT_SPAN_HEADER}

\* C20: when finalize_story_trace(t) has returned, t is not active and no
\* tracked span has trace id t.
C20_FinalizedTraceForgotten ==
    (last.op = "finalize_story_trace" /\ ~last.raised)
        => /\ last.args.trace_id \notin DOMAIN orchestrator.active_traces
           /\ \A x \in DOMAIN orchestrator.spans :
                  orchestrator.spans[x].trace_id # last.args.trace_id

\* C14: when the body of a trace_story_generation block raises, the error
\* that reaches the caller of the block is the body's error, whatever the
\* Langfuse client does while the end and metrics events are logged.
C14_BodyErrorReachesCaller ==
    [][(/\ last'.op = "trace_story_generation"
        /\ last'.args.body_error # NoError)
           => last'.error = last'.args.body_error]_vars

\* the step is the teardown of a handler of either class
TornDown ==
    \/ handler.phase # "deleted" /\ handler'.phase = "deleted"
    \/ narrative.phase # "deleted" /\ narrative'.phase = "deleted"

\* C15: teardown of a CoaiapyLangfuseCallbackHandler or of a
\* NarrativeTracingHandler never raises: whether the remote flush fails
\* during it or the handler's construction failed before its fields were
\* set, no error reaches the caller of __del__.
C15_TeardownNeverRaises ==
    [][TornDown => /\ last'.op = "__del__"
                   /\ last'.error = NoError
                   /\ ~last'.raised]_vars

\* a NarrativeTracingHandler torn down while its client's flush raised
C15_Witness ==
    /\ narrative.phase = "deleted"
    /\ last.op = "__del__"
    /\ last.args.inner = RemoteError
    /\ ~last.raised

\* C16: every flush() call, in whatever state of a built object and however
\* many came before, forwards exactly one flush to the remote client,
\* changes no table and no span, and raises only what the client raised.
C16_FlushOnlyForwards ==
    [][last'.op = "flush" =>
          /\ last'.error = last'.args.client_error
          /\ UNCHANGED <<default_trace_id, tables, remote, uuid_count,
                         handler, LANGFUSE_AVAILABLE, langfuse_clients>>
          /\ handler.phase = "built" =>
                 /\ remote_flushes' = remote_flushes + 1
                 /\ UNCHANGED <<narrative, orchestrator>>
          /\ narrative.phase = "built" =>
                 /\ narrative' =
                        [narrative EXCEPT
                            !.calls = @ + 1,
                            !.langfuse = Append(@, [method |-> "flush"])]
                 /\ UNCHANGED <<remote_flushes, orchestrator>>
          /\ orchestrator.phase = "built" =>
                 /\ orchestrator' =
                        [orchestrator EXCEPT
                            !.calls = @ + 1,
                            !.langfuse = Append(@, [method |-> "flush"])]
                 /\ UNCHANGED <<remote_flushes, narrative>>]_vars

\* a second flush() of a handler that has a span open, the client raising
C16_Witness ==
    /\ handler.phase = "built"
    /\ last.op = "flush"
    /\ last.error = RemoteError
    /\ remote_flushes = 2
    /\ \E i \in DOMAIN remote_spans : remote_spans[i].ends = 0

\* the object of a class is not there or has no attribute set
Unbuilt(object) ==
    \/ object.phase = "absent"
    \/ object.phase \in {"new", "failed", "deleted"} /\ object.attrs = {}

\* C17: when the langfuse library is unavailable, constructing an object of
\* any of the three classes raises ImportError with no Langfuse client
\* created and no attribute or table set, and no callback or method is
\* ever processed by the object.
C17_UnavailableFailsFirst ==
    ~LANGFUSE_AVAILABLE =>
        /\ langfuse_clients = 0
        /\ Unbuilt(handler) /\ Unbuilt(narrative) /\ Unbuilt(orchestrator)
        /\ run_to_trace_id = EmptyDict /\ run_to_observation_id = EmptyDict
        /\ trace_objects = EmptyDict /\ observation_objects = EmptyDict
        /\ remote_traces = <<>> /\ remote_spans = <<>>
        /\ remote_flushes = 0
        /\ last.op \in {"new", "__init__", "__del__"}
        /\ last.op = "__init__" => last.error = ImportError

\* the constructor of CoaiapyLangfuseCallbackHandler has raised ImportError
C17_Witness ==
    /\ ~LANGFUSE_AVAILABLE
    /\ handler.phase = "failed"
    /\ last.op = "__init__"
    /\ last.error = ImportError

\* the display name of the span the step created
NewName == remote_spans'[Len(remote_spans')].name

\* the glyph of the kind followed by the declared name, or by the kind's
\* fallback name when none is declared; a declared name that already
\* begins with the glyph is taken as it is
GlyphName(run_type, declared, fallback) ==
    IF declared \notin {None, ""} /\ StartsWith(declared, Glyph(run_type))
    THEN declared
    ELSE Glyph(run_type) \o " " \o PyOr(declared, fallback)

\* the model name the metadata declares, None without one
DeclaredModel(metadata) ==
    IF metadata = <<>> THEN None ELSE Get(metadata[1], "ls_model_name")

\* the name the serialized dict of a chain declares, None without one
DeclaredChain(serialized) ==
    PyOr(Get(serialized, "name"),
         IF "id" \in DOMAIN serialized
         THEN serialized["id"][Len(serialized["id"])] ELSE None)

\* C21: every span a start callback creates is named by the glyph of its
\* kind followed by the declared name, or by the kind's fallback name (LLM,
\* ChatModel, Chain, Tool, Retriever) when none is declared, whatever the
\* metadata, the model name and the serialized name are.
C21_GlyphThenName ==
    [][\A s \in NamedSerialized, r \in Runs, p \in OptRuns :
          /\ \A m \in NamedMetadata :
                 /\ on_llm_start(s, m, r, p, "none") /\ ~last'.raised
                        => NewName = GlyphName("llm", DeclaredModel(m), "LLM")
                 /\ on_chat_model_start(s, m, r, p, "none") /\ ~last'.raised
                        => NewName = GlyphName("chat", DeclaredModel(m),
                                               "ChatModel")
          /\ on_chain_start(s, r, p, "none") /\ ~last'.raised
                 => NewName = GlyphName("chain", DeclaredChain(s), "Chain")
          /\ on_tool_start(s, r, p, "none") /\ ~last'.raised
                 => NewName = GlyphName("tool", Get(s, "name"), "Tool")
          /\ on_retriever_start(s, r, p, "none") /\ ~last'.raised
                 => NewName = GlyphName("retriever", Get(s, "name"),
                                        "Retriever")]_vars

\* the handle an end or error event of the run acts on, 0 without one
HandleOf(run) ==
    IF HasSpan(run)
    THEN observation_objects[run_to_observation_id[RunStr(run)]]
    ELSE 0

\* C22: a span is identified by its observation id, never by its display
\* name: a start event adds a span of its own, with the id of its run,
\* different from the id registered for every other run, and leaves every
\* span there is as it was, the same name or not; an end or error event
\* acts on the handle registered for its run and on no other span, the
\* same name or not.
C22_IdentityById ==
    [][/\ (last'.op = "start" /\ ~last'.raised) =>
             /\ Len(remote_spans') = Len(remote_spans) + 1
             /\ remote_spans'[Len(remote_spans')].id = RunStr(last'.run)
             /\ \A i \in DOMAIN remote_spans :
                    remote_spans'[i] = remote_spans[i]
             /\ \A q \in Runs \ {last'.run} :
                    RunStr(q) \in DOMAIN run_to_observation_id' =>
                        run_to_observation_id'[RunStr(q)]
                            # run_to_observation_id'[RunStr(last'.run)]
       /\ last'.op \in {"end", "error"} =>
             /\ Len(remote_spans') = Len(remote_spans)
             /\ \A i \in DOMAIN remote_spans :
                    i # HandleOf(last'.run) =>
                        remote_spans'[i] = remote_spans[i]]_vars

\* two spans of different runs with the same display name, the one closed
\* by the end event of its run, the other still open
C22_Witness ==
    /\ last.op = "end"
    /\ HasSpan(last.run)
    /\ SpanOf(last.run).ends = 1
    /\ \E q \in Runs \ {last.run} :
           /\ HasSpan(q)
           /\ SpanOf(q).name = SpanOf(last.run).name
           /\ SpanOf(q).id # SpanOf(last.run).id
           /\ SpanOf(q).ends = 0

\* every span call the handler's client received was made on the handle of
\* the trace whose id is the handler's root trace id
LoggedUnderRoot(n) ==
    \A i \in DOMAIN n.langfuse :
        n.langfuse[i].method = "span" =>
            n.langfuse[n.langfuse[i].trace].id = n.root_trace_id

\* C23: get_correlation_header returns the trace-id header, X-Story-Id
\* with the handler's current story id and X-Session-Id; the trace id is
\* the handler's root trace id, which never changes once it is set, and
\* every span log_event created was created under the trace of that id,
\* whether the header was asked for before or after the first event.
C23_HeaderNamesTheRoot ==
    [][/\ (last'.op = "get_correlation_header" /\ ~last'.raised) =>
             /\ DOMAIN last'.returned =
                    {TRACE_ID_HEADER, STORY_ID_HEADER, SESSION_ID_HEADER}
             /\ last'.returned[TRACE_ID_HEADER] \notin {None, ""}
             /\ last'.returned[TRACE_ID_HEADER] = narrative'.root_trace_id
             /\ last'.returned[STORY_ID_HEADER] = narrative'.story_id
             /\ last'.returned[SESSION_ID_HEADER] =
                    PyOr(narrative'.session_id, "")
       /\ (/\ narrative.phase = "built" /\ narrative'.phase = "built"
           /\ narrative.root_trace_id \notin {None, ""}) =>
               narrative'.root_trace_id = narrative.root_trace_id
       /\ narrative'.phase = "built" => LoggedUnderRoot(narrative')]_vars

\* the header asked for again after an event was logged, by a handler that
\* was constructed without a story id and so without a root trace
C23_Witness ==
    /\ narrative.phase = "built"
    /\ last.op = "get_correlation_header"
    /\ ~last.raised
    /\ narrative.calls = 3
    /\ narrative.story_id = "unknown"
    /\ Len(narrative.langfuse) = 2
    /\ narrative.langfuse[2].method = "span"
    /\ last.returned[TRACE_ID_HEADER] = narrative.langfuse[1].id

\* the counter after a call: zero after reset_metrics, one more after a
\* call that counts, unchanged after any other call
Counted(before, counts) ==
    IF last'.op = "reset_metrics" THEN 0
    ELSE IF counts THEN before + 1
    ELSE before

\* C24: the process counters count calls: each starts at zero, goes back to
\* zero at reset_metrics, and beats_generated, enrichments_applied and
\* routing_decisions grow by one at each log_beat_creation,
\* log_beat_enrichment and log_routing_decision call, gaps_remediated by
\* one at each log_gap_remediated call with success true; no other call
\* changes them.
C24_CountersCountCalls ==
    /\ narrative.phase = "built" =>
           /\ narrative.metrics.beats_generated = 0
           /\ narrative.metrics.enrichments_applied = 0
           /\ narrative.metrics.routing_decisions = 0
           /\ narrative.metrics.gaps_remediated = 0
    /\ [][(narrative.phase = "built" /\ narrative'.phase = "built") =>
             /\ narrative'.metrics.beats_generated =
                    Counted(narrative.metrics.beats_generated,
                            last'.op = "log_beat_creation")
             /\ narrative'.metrics.enrichments_applied =
                    Counted(narrative.metrics.enrichments_applied,
                            last'.op = "log_beat_enrichment")
             /\ narrative'.metrics.routing_decisions =
                    Counted(narrative.metrics.routing_decisions,
                            last'.op = "log_routing_decision")
             /\ narrative'.metrics.gaps_remediated =
                    Counted(narrative.metrics.gaps_remediated,
                            /\ last'.op = "log_gap_remediated"
                            /\ last'.args.success)]_vars

\* a routing decision, a gap remediated and a gap not remediated logged
C24_Witness ==
    /\ narrative.phase = "built"
    /\ narrative.calls = 3
    /\ last.op = "log_gap_remediated"
    /\ ~last.args.success
    /\ narrative.metrics.gaps_remediated = 1
    /\ narrative.metrics.routing_decisions = 1
    /\ narrative.metrics.beats_generated = 0

SpanCreators ==
    {"create_beat_span", "create_analysis_span", "create_agent_flow_span",
     "create_enrichment_span"}

\* the span ids listed as children of some root
ChildSpanIds ==
    UNION {Range(orchestrator.roots[i].child_span_ids) :
              i \in DOMAIN orchestrator.roots}

\* the step appended the span id to the child list of the root r and the
\* span tracked under the id carries the ids of that root
CreatedFor(r, span_id) ==
    /\ orchestrator'.roots[r].child_span_ids =
           Append(orchestrator.roots[r].child_span_ids, span_id)
    /\ orchestrator.roots[r].trace_id = last'.args.trace_id
    /\ last'.op # "create_beat_span" =>
           r = orchestrator.active_traces[last'.args.trace_id]
    /\ orchestrator'.spans[span_id].span_id = span_id
    /\ orchestrator'.spans[span_id].trace_id = orchestrator.roots[r].trace_id
    /\ orchestrator'.spans[span_id].story_id = orchestrator.roots[r].story_id
    /\ orchestrator'.spans[span_id].session_id =
           orchestrator.roots[r].session_id

\* C25: every span-creation method that returns gives a span id that was
\* neither tracked nor listed before, appends it once to the child list of
\* the root it was called for and leaves every other root's child list as
\* it was, and tracks a span with that root's trace, story and session id.
C25_SpanJoinsItsRoot ==
    [][(last'.op \in SpanCreators /\ ~last'.raised) =>
          /\ last'.returned \notin DOMAIN orchestrator.spans
          /\ last'.returned \notin ChildSpanIds
          /\ last'.returned \in DOMAIN orchestrator'.spans
          /\ DOMAIN orchestrator'.roots = DOMAIN orchestrator.roots
          /\ \E r \in DOMAIN orchestrator.roots :
                 /\ CreatedFor(r, last'.returned)
                 /\ \A q \in DOMAIN orchestrator.roots \ {r} :
                        orchestrator'.roots[q].child_span_ids =
                            orchestrator.roots[q].child_span_ids]_vars

\* two roots of different trace ids, a span created for one of them
C25_Witness ==
    /\ orchestrator.phase = "built"
    /\ last.op \in SpanCreators
    /\ ~last.raised
    /\ Len(orchestrator.roots) = 2
    /\ orchestrator.roots[1].trace_id # orchestrator.roots[2].trace_id
    /\ orchestrator.roots[2].child_span_ids = <<last.returned>>
    /\ orchestrator.roots[1].child_span_ids = <<>>
    /\ orchestrator.spans[last.returned].trace_id =
           orchestrator.roots[2].trace_id

\* a sequence that holds no value twice
NoRepeat(seq) == \A i, j \in DOMAIN seq : seq[i] = seq[j] => i = j

\* seq is the front part of longer
FrontOf(seq, longer) ==
    /\ Len(seq) <= Len(longer)
    /\ \A i \in DOMAIN seq : longer[i] = seq[i]

\* the root whose correlation the call recorded in next_call adds to, as a
\* set: empty for a call that adds nothing
AddsTo(o, next_call) ==
    CASE next_call.op = "add_child" -> {next_call.args.root_trace}
      [] next_call.op \in {"link_external_trace", "create_agent_flow_span"}
         /\ ~next_call.raised
         /\ next_call.args.trace_id \in DOMAIN o.active_traces ->
             {o.active_traces[next_call.args.trace_id]}
      [] OTHER -> {}

\* C26: a correlation path never holds a name twice; every call leaves each
\* root's child trace ids and correlation path as the front part of what
\* they are afterwards, so names stay in the order of their first
\* occurrence; add_child and link_external_trace on an active trace put the
\* child id last in child_trace_ids and the system name in the path, and
\* create_agent_flow_span puts its backend name in the path.
C26_CorrelationRecordsChildren ==
    /\ [](orchestrator.phase = "built" =>
             \A r \in DOMAIN orchestrator.roots :
                 NoRepeat(orchestrator.roots[r].correlation_path))
    /\ [][(/\ orchestrator.phase = "built"
           /\ orchestrator'.calls = orchestrator.calls + 1) =>
             /\ \A r \in DOMAIN orchestrator.roots :
                    /\ FrontOf(orchestrator.roots[r].child_trace_ids,
                               orchestrator'.roots[r].child_trace_ids)
                    /\ FrontOf(orchestrator.roots[r].correlation_path,
                               orchestrator'.roots[r].correlation_path)
             /\ \A r \in AddsTo(orchestrator, last') :
                    LET before == orchestrator.roots[r]
                        after == orchestrator'.roots[r]
                    IN  IF last'.op = "create_agent_flow_span"
                        THEN /\ last'.args.backend
                                    \in Range(after.correlation_path)
                             /\ after.child_trace_ids =
                                    before.child_trace_ids
                        ELSE /\ after.child_trace_ids =
                                    Append(before.child_trace_ids,
                                           last'.args[IF last'.op = "add_child"
                                                      THEN "trace_id"
                                                      ELSE "external_trace_id"])
                             /\ last'.args[IF last'.op = "add_child"
                                           THEN "system"
                                           ELSE "external_system"]
                                    \in Range(after.correlation_path)]_vars

\* the same system linked twice to one root and a backend after it: two
\* child ids, each name once in the path, in the order of first occurrence
C26_Witness ==
    /\ orchestrator.phase = "built"
    /\ last.op = "link_external_trace"
    /\ last.args.external_system = "langflow"
    /\ Len(orchestrator.roots) = 1
    /\ orchestrator.roots[1].child_trace_ids = <<"e1", "e2">>
    /\ orchestrator.roots[1].correlation_path = <<"langchain", "langflow">>

\* the metric conditions of generate_improvement_suggestions that hold
Triggered(metrics) ==
    {c \in {"coherence", "emotional arc", "theme clarity",
            "cross-universe coherence", "enrichment ratio",
            "incomplete character arcs", "slow beats"} :
        CASE c = "coherence" -> metrics.coherence_score < 6
          [] c = "emotional arc" -> metrics.emotional_arc_strength < 5
          [] c = "theme clarity" -> metrics.theme_clarity < 6
          [] c = "cross-universe coherence" ->
                 metrics.cross_universe_coherence < 5
          [] c = "enrichment ratio" ->
                 10 * metrics.enrichments_applied
                     < 3 * metrics.beats_generated
          [] c = "incomplete character arcs" ->
                 \E i \in DOMAIN metrics.character_arc_completion :
                     metrics.character_arc_completion[i][2] < 6
          [] OTHER -> metrics.average_beat_time_ms > 5000}

\* the message of a condition: for the incomplete arcs, any message that
\* starts as that suggestion does
IsMessageOf(c, message) ==
    CASE c = "coherence" -> message = LowCoherence
      [] c = "emotional arc" -> message = WeakEmotionalArc
      [] c = "theme clarity" -> message = UnclearThemes
      [] c = "cross-universe coherence" -> message = LowAlignment
      [] c = "enrichment ratio" -> message = FewEnriched
      [] c = "incomplete character arcs" ->
             /\ Len(message) > Len(IncompleteArcsPrefix)
             /\ SubSeq(message, 1, Len(IncompleteArcsPrefix))
                    = IncompleteArcsPrefix
      [] OTHER -> message = SlowBeats

\* C27: the returned list is never empty; it holds exactly one suggestion
\* for each condition that triggers and none for a condition that does
\* not, and it is the single healthy-metrics message exactly when no
\* condition triggers.
C27_SuggestionsNeverEmpty ==
    formatter.phase = "called" =>
        LET s == formatter.suggestions
            t == Triggered(formatter.metrics)
        IN  /\ Len(s) > 0
            /\ (s = <<Healthy>>) <=> (t = {})
            /\ t # {} =>
                   /\ Len(s) = Cardinality(t)
                   /\ \A c \in t :
                          Cardinality({i \in DOMAIN s :
                                          IsMessageOf(c, s[i])}) = 1
            /\ last.returned = s

\* healthy metrics: no condition triggers and the one message is returned
C27_Witness ==
    /\ formatter.phase = "called"
    /\ Triggered(formatter.metrics) = {}
    /\ formatter.metrics.beats_generated > 0
    /\ formatter.metrics.character_arc_completion # <<>>
    /\ formatter.suggestions = <<Healthy>>

\* the langfuse.trace calls the client received for trace_id
TraceCalls(trace_id) ==
    Cardinality({i \in DOMAIN remote_traces : remote_traces[i] = trace_id})

\* the threads that found trace_id missing at line 111 and have made their
\* langfuse.trace call since
CreatedBy(trace_id) ==
    {t \in DOMAIN threads :
        /\ threads[t].trace_id = trace_id
        /\ threads[t].missing
        /\ threads[t].pc \notin {"stored", "create"}}

\* C28: on a handler with a default trace id, the remote trace of that id
\* is created once for every thread that found it not yet stored, and two
\* threads can both find it so: nothing between the test and the store
\* keeps a second thread out.
C28_CreatedOncePerPassedCheck ==
    (threads # NoThreads /\ default_trace_id \notin {None, ""}) =>
        /\ TraceCalls(default_trace_id)
               = Cardinality(CreatedBy(default_trace_id))
        /\ \A t \in DOMAIN threads :
               threads[t].pc \in {"create", "store"} => threads[t].missing

\* both callbacks returned, both passed the test, and the client was asked
\* twice to create the trace of the default id
C28_Witness ==
    /\ threads # NoThreads
    /\ default_trace_id = "D"
    /\ threads[1].pc = "done" /\ threads[2].pc = "done"
    /\ threads[1].missing /\ threads[2].missing
    /\ threads[1].trace # threads[2].trace
    /\ remote_traces[threads[1].trace] = "D"
    /\ remote_traces[threads[2].trace] = "D"
    /\ TraceCalls("D") >= 2

\* a start callback returned: the client received one more span
StartReturned ==
    /\ last'.op = "start"
    /\ ~last'.raised
    /\ Len(remote_spans') = Len(remote_spans) + 1

\* C29: with no default trace id, the first callback being the start of a
\* run whose parent has not started does not raise, registers a newly
\* synthesized trace id for the run, creates that trace and a span in it
\* with no parent observation id; every start that returns leaves the
\* trace of every other run and every span already sent as they were;
\* and after a start of that parent as a top-level run right afterwards
\* the child is still in its own trace, not the parent's, under no parent.
C29_OrphanChildStaysApart ==
    [][/\ (/\ scenario = "fresh" /\ scenario' # "fresh"
           /\ handler.phase = "built"
           /\ default_trace_id \in {None, ""}
           /\ last'.op = "start"
           /\ last'.parent \notin {NoRun, last'.run}) =>
              LET child == RunStr(last'.run)
                  new_id == UuidPool[uuid_count + 1]
              IN  /\ ~last'.raised
                  /\ scenario' = "startChild"
                  /\ new_id \notin Range(remote_traces)
                  /\ run_to_trace_id' = Put(run_to_trace_id, child, new_id)
                  /\ remote_traces' = Append(remote_traces, new_id)
                  /\ Len(remote_spans') = Len(remote_spans) + 1
                  /\ remote_spans'[Len(remote_spans')].id = child
                  /\ remote_spans'[Len(remote_spans')].trace_id = new_id
                  /\ remote_spans'[Len(remote_spans')].parent_observation_id
                         = None
       /\ StartReturned =>
              /\ \A r \in DOMAIN run_to_trace_id :
                     r # RunStr(last'.run) =>
                         run_to_trace_id'[r] = run_to_trace_id[r]
              /\ \A i \in DOMAIN remote_spans :
                     remote_spans'[i] = remote_spans[i]
       /\ (StartReturned /\ scenario' = "startParent"
              /\ default_trace_id \in {None, ""}) =>
              LET child == RunStr(last.run)
                  parent == RunStr(last'.run)
              IN  /\ last.parent = last'.run
                  /\ run_to_trace_id'[child] # run_to_trace_id'[parent]
                  /\ remote_spans'[1].id = child
                  /\ remote_spans'[1].trace_id = run_to_trace_id'[child]
                  /\ remote_spans'[1].parent_observation_id = None
                  /\ remote_spans'[2].id = parent
                  /\ remote_spans'[2].trace_id = run_to_trace_id'[parent]]_vars

\* the child started first, its parent right after it: two traces, the
\* child's span in its own and under nobody
C29_Witness ==
    /\ scenario = "startParent"
    /\ default_trace_id = None
    /\ Len(remote_traces) = 2
    /\ Len(remote_spans) = 2
    /\ remote_spans[1].trace_id # remote_spans[2].trace_id
    /\ remote_spans[1].parent_observation_id = None
    /\ remote_spans[2].id = RunStr(last.run)

\* the record of a trace.span call for an event of the handler
EventSpan(n, trace_id, span_id, event_type, parent_span_id) ==
    [method |-> "span", trace |-> n.trace_objects[trace_id], id |-> span_id,
     event_type |-> event_type, parent_observation_id |-> parent_span_id]

\* the events the finally clause logs for the block that is open: the end
\* event under the start span, then the metrics event
ExitEvents ==
    LET ctx == narrative.ctx[1]
    IN  <<EventSpan(narrative, ctx.trace_id, UuidPool[uuid_count + 1],
                    "narrative.story.end", ctx.start_span_id),
          EventSpan(narrative, ctx.trace_id, UuidPool[uuid_count + 2],
                    "narrative.story.metrics", None)>>

\* C30: entering the block logs the story-start event last, before any
\* call the body makes, under the trace id that is yielded; while the
\* block is open that span is there and the yielded id is the root trace
\* id; leaving the block, the body having returned or raised, logs the
\* story-end event with the start span as parent and then the
\* story-metrics event, both under the yielded trace id, and nothing
\* else (when the client raises on one of the two, the events before it).
C30_StoryEventsInOrder ==
    /\ [](narrative.phase = "built" /\ narrative.ctx # <<>> =>
             LET ctx == narrative.ctx[1]
             IN  /\ ctx.trace_id = narrative.root_trace_id
                 /\ ctx.trace_id \in DOMAIN narrative.trace_objects
                 /\ narrative.langfuse[narrative.trace_objects[ctx.trace_id]]
                        .id = ctx.trace_id
                 /\ \E i \in DOMAIN narrative.langfuse :
                        narrative.langfuse[i] =
                            EventSpan(narrative, ctx.trace_id,
                                      ctx.start_span_id,
                                      "narrative.story.start", None))
    /\ [][
           /\ \A s \in NarrativeStoryArgs, f \in NarrativeFaults :
                (trace_story_generation_enter(s, f) /\ ~last'.raised) =>
                    /\ narrative'.ctx # <<>>
                    /\ last'.returned = narrative'.ctx[1].trace_id
                    /\ narrative'.langfuse[Len(narrative'.langfuse)] =
                           EventSpan(narrative', last'.returned,
                                     narrative'.ctx[1].start_span_id,
                                     "narrative.story.start", None)
           /\ \A b \in BodyOutcomes, f \in ExitFaults :
                trace_story_generation_exit(b, f) =>
                    /\ narrative'.ctx = <<>>
                    /\ narrative'.root_trace_id = narrative.ctx[1].trace_id
                    /\ narrative'.langfuse =
                           narrative.langfuse \o
                               (CASE f = "none" -> ExitEvents
                                  [] f = "metrics" -> <<ExitEvents[1]>>
                                  [] OTHER -> <<>>)]_vars

\* a block whose body logged an event and then raised: start, the body's
\* event, end under the start span, metrics, all in one trace
C30_Witness ==
    /\ narrative.phase = "built"
    /\ last.op = "trace_story_generation"
    /\ last.args.body_error # NoError
    /\ last.error = last.args.body_error
    /\ Len(narrative.langfuse) = 5
    /\ narrative.langfuse[1].method = "trace"
    /\ \A i \in 2..5 : narrative.langfuse[i].trace = 1
    /\ narrative.langfuse[2].event_type = "narrative.story.start"
    /\ narrative.langfuse[4].event_type = "narrative.story.end"
    /\ narrative.langfuse[4].parent_observation_id = narrative.langfuse[2].id
    /\ narrative.langfuse[5].event_type = "narrative.story.metrics"

\* a start callback of the run returned after a span of its parent was
\* closed by an end or error event; i is that span of the parent
StartsAfterClosure(i) ==
    /\ StartReturned
    /\ last'.parent # NoRun
    /\ i \in DOMAIN remote_spans
    /\ remote_spans[i].id = RunStr(last'.parent)
    /\ remote_spans[i].ends >= 1

\* the span the start callback created is in the trace of span i and has
\* the parent run's observation id as parent, and the run is recorded in
\* that trace
JoinsParent(i) ==
    LET new == remote_spans'[Len(remote_spans')]
    IN  /\ new.id = RunStr(last'.run)
        /\ new.parent_observation_id = RunStr(last'.parent)
        /\ new.trace_id = remote_spans[i].trace_id
        /\ TraceAfter(last'.run) = remote_spans[i].trace_id

Tables ==
    <<run_to_trace_id, run_to_observation_id, trace_objects,
      observation_objects>>

\* a start callback during which the Langfuse client raises
FailedStart == StartCallbacks({"trace", "observation"}, PlainSerialized, PlainMetadata)

\* C33: a start event during which the Langfuse client raises, creating
\* the trace or the span, leaves the four tables of the handler as they
\* were before the event.
C33_FailedStartLeavesTables == [][FailedStart => UNCHANGED Tables]_vars

\* a run maps to a trace id that has no stored handle, and a start event
\* processed after that has failed on it
C33_RetryFailsOnMissingHandle ==
    /\ last.op = "start"
    /\ last.raised
    /\ Known(last.run)
    /\ TraceOf(last.run) \notin DOMAIN trace_objects
    /\ remote_traces = <<>>
    /\ remote_spans = <<>>
    /\ scenario = "off"
    /\ last.parent # NoRun

\* C34: a start event for a run that already has a span makes no second
\* span creation call and leaves the stored span handle in place.
C34_RepeatedStartKeepsSpan ==
    [][(last'.op = "start" /\ HasSpan(last'.run))
          => /\ remote_spans' = remote_spans
             /\ observation_objects' = observation_objects]_vars

\* the end event of a run started twice has closed the span of the second
\* start, the span of the first start staying open
C34_SecondSpanClosed ==
    /\ last.op = "end"
    /\ ~last.raised
    /\ Cardinality(SpansOfRun(last.run)) = 2
    /\ \E i, j \in SpansOfRun(last.run) :
           /\ i < j
           /\ remote_spans[i].ends = 0
           /\ remote_spans[j].ends = 1
           /\ observation_objects[RunStr(last.run)] = j

\* the span is one of an active trace and in the child list of its root
OfActiveTrace(x) ==
    LET o == orchestrator
    IN  /\ o.spans[x].trace_id \in DOMAIN o.active_traces
        /\ x \in Range(o.roots[o.active_traces[o.spans[x].trace_id]]
                            .child_span_ids)

\* C35: every span in the span table of the orchestrator belongs to an
\* active trace and is listed in the child list of that trace.
C35_SpansOfActiveTraces ==
    orchestrator.phase = "built"
        => \A x \in DOMAIN orchestrator.spans : OfActiveTrace(x)

\* a beat span created with a RootTrace whose trace has been finalized
C35_SpanOfFinalizedTrace ==
    /\ orchestrator.phase = "built"
    /\ last.op = "create_beat_span"
    /\ last.error = NoError
    /\ orchestrator.active_traces = EmptyDict
    /\ last.returned \in DOMAIN orchestrator.spans

\* a span created before a second root took over the trace id
C35_SpanOfReplacedRoot ==
    /\ orchestrator.phase = "built"
    /\ last.op = "create_story_generation_root"
    /\ \E x \in DOMAIN orchestrator.spans :
           /\ orchestrator.spans[x].trace_id \in
                  DOMAIN orchestrator.active_traces
           /\ ~OfActiveTrace(x)

\* the methods that take the id of an active trace
TraceIdMethods ==
    {"create_analysis_span", "create_agent_flow_span",
     "create_enrichment_span", "finalize_story_trace"}

\* C36: create_analysis_span, create_agent_flow_span,
\* create_enrichment_span and finalize_story_trace called with a trace id
\* that is not active raise ValueError and leave the orchestrator as it
\* was: the span table, the roots with their child lists and correlation
\* paths, the active traces and the calls received by the client.
C36_UnknownTraceRejected ==
    [][(/\ orchestrator.phase = "built"
        /\ last'.op \in TraceIdMethods
        /\ last'.args.trace_id \notin DOMAIN orchestrator.active_traces)
           => /\ last'.error = UnknownTrace
              /\ last'.raised
              /\ orchestrator'.spans = orchestrator.spans
              /\ orchestrator'.roots = orchestrator.roots
              /\ orchestrator'.active_traces = orchestrator.active_traces
              /\ orchestrator'.langfuse = orchestrator.langfuse
              /\ uuid_count' = uuid_count]_vars

\* a span creation for the trace id of a trace that was finalized
C36_Witness ==
    /\ orchestrator.phase = "built"
    /\ last.op \in TraceIdMethods \ {"finalize_story_trace"}
    /\ last.error = UnknownTrace
    /\ Len(orchestrator.roots) = 1
    /\ last.args.trace_id = orchestrator.roots[1].trace_id
    /\ orchestrator.active_traces = EmptyDict
    /\ orchestrator.spans = EmptyDict
    /\ Len(orchestrator.langfuse) = 3

\* the place of a uuid in the order uuid4 produced them
PoolIndex(u) == CHOOSE k \in DOMAIN UuidPool : UuidPool[k] = u

\* the tracked spans of the trace id created after the
\* create_story_generation_root call that made its active root
SpansSince(trace_id) ==
    LET o == orchestrator
    IN  {x \in DOMAIN o.spans :
            /\ o.spans[x].trace_id = trace_id
            /\ \E k \in DOMAIN o.langfuse :
                   /\ k > ActiveRoot(trace_id).trace_object
                   /\ o.langfuse[k].method = "span"
                   /\ o.langfuse[k].id = x}

\* the completed trace holds the spans of ids, as tracked before the step,
\* in the order of their creation, and counts the beats among them
CompletedWith(completed, ids) ==
    LET spans == completed.spans
    IN  /\ {spans[i].span_id : i \in DOMAIN spans} = ids
        /\ Len(spans) = Cardinality(ids)
        /\ \A i \in DOMAIN spans :
               spans[i] = orchestrator.spans[spans[i].span_id]
        /\ \A i, j \in DOMAIN spans :
               i < j => PoolIndex(spans[i].span_id)
                            < PoolIndex(spans[j].span_id)
        /\ completed.beat_count =
               Cardinality({x \in ids : orchestrator.spans[x].event_type
                                            = "BEAT_CREATED"})

\* C37: finalize_story_trace(t) returns the spans created under t since
\* create_story_generation_root, in creation order, with the output and
\* error status they had, and a beat_count that is the number of
\* create_beat_span calls made for t.
C37_CompletedTraceHoldsAllSpans ==
    [][(/\ orchestrator.phase = "built"
        /\ last'.op = "finalize_story_trace"
        /\ ~last'.raised)
           => CompletedWith(last'.returned, SpansSince(last'.args.trace_id))]_vars

\* the same for an orchestrator whose roots all have trace ids of their own
C37_DistinctTraceIds ==
    [][(/\ orchestrator.phase = "built"
        /\ last'.op = "finalize_story_trace"
        /\ ~last'.raised
        /\ \A p, q \in DOMAIN orchestrator.roots :
               orchestrator.roots[p].trace_id = orchestrator.roots[q].trace_id
                   => p = q)
           => CompletedWith(last'.returned, SpansSince(last'.args.trace_id))]_vars

\* a beat created with the first of two roots of one trace id is missing
\* from the completed trace
C37_BeatOfFirstRootMissing ==
    /\ orchestrator.phase = "built"
    /\ last.op = "finalize_story_trace"
    /\ ~last.raised
    /\ last.returned.spans = <<>>
    /\ last.returned.beat_count = 0
    /\ Len(orchestrator.roots) = 2
    /\ orchestrator.roots[1].trace_id = last.args.trace_id
    /\ orchestrator.roots[2].trace_id = last.args.trace_id
    /\ Len(orchestrator.roots[1].child_span_ids) = 1
    /\ Len(orchestrator.langfuse) = 5
    /\ orchestrator.langfuse[3].method = "span"

\* C38: finalize_story_trace(t) leaves every other active trace active
\* with the child list it had, and every tracked span of another trace in
\* the span table with its fields as they were.
C38_FinalizeTouchesOneTrace ==
    [][(orchestrator.phase = "built" /\ last'.op = "finalize_story_trace")
          => LET o == orchestrator
                 t == last'.args.trace_id
             IN  /\ \A u \in DOMAIN o.active_traces \ {t} :
                        /\ u \in DOMAIN orchestrator'.active_traces
                        /\ orchestrator'.active_traces[u] = o.active_traces[u]
                        /\ orchestrator'.roots[o.active_traces[u]]
                               = o.roots[o.active_traces[u]]
                 /\ \A x \in DOMAIN o.spans :
                        o.spans[x].trace_id # t
                            => /\ x \in DOMAIN orchestrator'.spans
                               /\ orchestrator'.spans[x] = o.spans[x]]_vars

\* one of two traces finalized, the other active with its span tracked
C38_Witness ==
    /\ orchestrator.phase = "built"
    /\ last.op = "finalize_story_trace"
    /\ ~last.raised
    /\ Cardinality(DOMAIN orchestrator.active_traces) = 1
    /\ \E u \in DOMAIN orchestrator.active_traces :
           /\ u # last.args.trace_id
           /\ Len(ActiveRoot(u).child_span_ids) = 1
           /\ ActiveRoot(u).child_span_ids[1] \in DOMAIN orchestrator.spans
           /\ orchestrator.spans[ActiveRoot(u).child_span_ids[1]].trace_id = u

\* the methods that record the outcome of a span
OutcomeMethods == {"update_span_output", "mark_span_error"}

\* C40: a tracked span marked as errored stays unsuccessful with its error
\* set for as long as it is tracked, whatever update_span_output does to
\* it; update_span_output and mark_span_error with a span id that is not
\* tracked return without raising and change nothing.
C40_ErrorIsSticky ==
    [][orchestrator.phase = "built" =>
          /\ \A x \in DOMAIN orchestrator.spans \cap DOMAIN orchestrator'.spans :
                 ~orchestrator.spans[x].success
                     => /\ ~orchestrator'.spans[x].success
                        /\ orchestrator'.spans[x].error # None
                        /\ last'.op = "update_span_output"
                               => orchestrator'.spans[x].error
                                      = orchestrator.spans[x].error
          /\ \A x \in DOMAIN orchestrator'.spans :
                 ~orchestrator'.spans[x].success
                     => orchestrator'.spans[x].error # None
          /\ (/\ last'.op \in OutcomeMethods
              /\ last'.args.span_id \notin DOMAIN orchestrator.spans)
                 => /\ ~last'.raised
                    /\ orchestrator'.spans = orchestrator.spans
                    /\ orchestrator'.roots = orchestrator.roots
                    /\ orchestrator'.active_traces = orchestrator.active_traces
                    /\ orchestrator'.langfuse = orchestrator.langfuse]_vars

\* an output recorded for a span marked as errored before
C40_Witness ==
    /\ orchestrator.phase = "built"
    /\ last.op = "update_span_output"
    /\ ~last.raised
    /\ last.args.span_id \in DOMAIN orchestrator.spans
    /\ orchestrator.spans[last.args.span_id].output_data = "out"
    /\ ~orchestrator.spans[last.args.span_id].success
    /\ orchestrator.spans[last.args.span_id].error = "failed"

\* an outcome reported for a span id that is not tracked
C40_WitnessUnknownSpan ==
    /\ orchestrator.phase = "built"
    /\ last.op \in OutcomeMethods
    /\ ~last.raised
    /\ last.args.span_id \notin DOMAIN orchestrator.spans
    /\ orchestrator.spans # EmptyDict

\* the langfuse.trace calls the handler's client received
RootTraceCalls(n) ==
    {i \in DOMAIN n.langfuse : n.langfuse[i].method = "trace"}

\* C39: a NarrativeTracingHandler has one root trace for its whole life:
\* its client created at most one trace, which has the handler's root
\* trace id; the root trace id, once set, stays as it is through every
\* call, a trace_story_generation block with another story id included;
\* and every span was created on the handle of that trace.
C39_SingleRootTrace ==
    [][narrative'.phase = "built" =>
          /\ Cardinality(RootTraceCalls(narrative')) <= 1
          /\ \A i \in RootTraceCalls(narrative') :
                 /\ narrative'.langfuse[i].id = narrative'.root_trace_id
                 /\ DOMAIN narrative'.trace_objects
                        = {narrative'.root_trace_id}
                 /\ narrative'.trace_objects[narrative'.root_trace_id] = i
          /\ narrative.phase = "built" =>
                 /\ RootTraceCalls(narrative) \subseteq RootTraceCalls(narrative')
                 /\ narrative.root_trace_id \notin {None, ""} =>
                        narrative'.root_trace_id = narrative.root_trace_id
          /\ \A i \in DOMAIN narrative'.langfuse :
                 narrative'.langfuse[i].method = "span" =>
                     /\ narrative'.langfuse[i].trace
                            \in RootTraceCalls(narrative')
                     /\ narrative'.langfuse[narrative'.langfuse[i].trace].id
                            = narrative'.root_trace_id]_vars

\* a block entered with another story id than the one the root trace was
\* created for: its start event is a span of that one trace
C39_Witness ==
    /\ narrative.phase = "built"
    /\ last.op = "trace_story_generation.__enter__"
    /\ ~last.raised
    /\ narrative.story_id = "s1"
    /\ narrative.langfuse[1].method = "trace"
    /\ narrative.langfuse[1].story_id = "s2"
    /\ Cardinality(RootTraceCalls(narrative)) = 1
    /\ last.returned = narrative.langfuse[1].id
    /\ narrative.langfuse[Len(narrative.langfuse)].method = "span"
    /\ narrative.langfuse[Len(narrative.langfuse)].trace = 1
    /\ narrative.calls >= 2

====
